---- MODULE Spec2Model ----
(***************************************************************************)
(* mcp-toolkit client: the session registry (MultipleMCPClientManager),    *)
(* the streaming chat orchestrator (MCPChat.process_*_stream_chat) and the *)
(* stream adapter (CustomAsyncStream).                                     *)
(*                                                                         *)
(* Python values are modelled as follows.  A dict is a sequence of entries *)
(* in insertion order with pairwise distinct keys; assigning to a key that *)
(* is present replaces the value and keeps the position.  A str that the   *)
(* code concatenates is a sequence of tokens.  None is the value None,     *)
(* which differs from the text str(None).                                  *)
(***************************************************************************)
EXTENDS Integers, Sequences, FiniteSets, TLC

\* ---------------------------------------------------------------- bounds
MaxBackends == 2        \* longest sse_server_map
MaxStdio == 1           \* largest stdio_server_map
MaxTurnsBound == 2      \* largest max_turns
MaxChunks == 3          \* chunks all model responses of one run hold together
MaxCalls == 2           \* call_tool invocations a direct caller of the registry makes
MaxPulls == 2           \* requests for a chunk a caller makes after the end of the sequence
MaxTypes == 2           \* longest list-valued "type" of a schema property
MaxApply == 2           \* direct calls of filter_mcp_input_schema on one schema
MaxRecords == 2         \* MCP records the table ever holds
MaxOps == 3             \* operations issued on one MCPService

\* ---------------------------------------------------------------- values
None == "<None>"
NoneObs == <<None>>                     \* the value None where a text is expected
NoneText == <<"None">>                  \* str(None)
NoSession == 0                          \* sessions.get(...) found nothing
ServerNames == {"a", "b"}
Listings == {<<"search">>, <<"fetch", "search">>}
BackendSet == [name : ServerNames, listing : Listings]
ToolNames == {"search", "fetch", "ghost"}   \* "ghost" is listed by no backend

Range(s) == {s[i] : i \in 1..Len(s)}
SeqsUpTo(S, n) == UNION {[1..m -> S] : m \in 0..n}
Last(s) == s[Len(s)]

\* ------------------------------------------------------------ dict helpers
HasKey(d, k) == \E i \in 1..Len(d) : d[i].key = k
DictGetOr(d, k, dflt) ==
    IF HasKey(d, k) THEN d[CHOOSE i \in 1..Len(d) : d[i].key = k].val ELSE dflt
DictPut(d, k, v) ==
    IF HasKey(d, k)
    THEN [i \in 1..Len(d) |-> IF d[i].key = k THEN [key |-> k, val |-> v] ELSE d[i]]
    ELSE Append(d, [key |-> k, val |-> v])
DistinctKeys(d) == \A i, j \in 1..Len(d) : d[i].key = d[j].key => i = j

VARIABLES
    \* MultipleMCPClientManager
    stdio_server_map,   \* dict name -> params, as a sequence of backends with distinct names
    sse_server_map,     \* list of MCPServerModel
    sessions,           \* dict server name -> session (the backend's position in Backends)
    exit_stack,         \* AsyncExitStack: the contexts entered, in order
    opened,             \* every transport and session ever opened
    closed,             \* the ones closed since
    reg,                \* "new", "ready" (initialize returned), "failed" (it raised), "closed"
    \* what list_tools returned last / MCPChat.tool_map, MCPChat.tools
    tool_map,
    tools,
    listed,             \* list_tools has returned
    session_calls,      \* session.call_tool invocations, in order
    last_call           \* the last call_tool of a direct caller and what it returned

regvars == <<stdio_server_map, sse_server_map, sessions, exit_stack, opened, closed, reg,
             tool_map, tools, listed, session_calls, last_call>>

\* The backends in the order initialize() connects them: stdio first, then SSE.
Backends == stdio_server_map \o sse_server_map

Transport(b) == [res |-> "transport", b |-> b]
Session(b) == [res |-> "session", b |-> b]

\* -------------------------------------------------------------- initialize
InitSteps == {"transport", "session", "handshake"}

\* self.sessions after the first n backends have been connected.
RECURSIVE RegisterAll(_, _)
RegisterAll(bl, n) ==
    IF n = 0 THEN <<>> ELSE DictPut(RegisterAll(bl, n - 1), bl[n].name, n)

\* The exit stack after the first n backends have been connected.
RECURSIVE StackAll(_)
StackAll(n) == IF n = 0 THEN <<>> ELSE StackAll(n - 1) \o <<Transport(n), Session(n)>>

\* What the failing backend k had entered on the exit stack when step failed.
PartialStack(k, step) ==
    CASE step = "transport" -> <<>>
      [] step = "session"   -> <<Transport(k)>>
      [] step = "handshake" -> <<Transport(k), Session(k)>>

\* The except clause of initialize(): log and re-raise; nothing is closed.
InitializeRollback(stack) == stack

\* initialize() on the backend list bl; k = 0: every backend connects,
\* otherwise backend k fails at step.
InitializeOutcome(bl, k, step) ==
    IF k = 0
    THEN [ok |-> TRUE, sessions |-> RegisterAll(bl, Len(bl)), stack |-> StackAll(Len(bl)),
          entered |-> Range(StackAll(Len(bl)))]
    ELSE [ok |-> FALSE, sessions |-> RegisterAll(bl, k - 1),
          stack |-> InitializeRollback(StackAll(k - 1) \o PartialStack(k, step)),
          entered |-> Range(StackAll(k - 1) \o PartialStack(k, step))]

\* -------------------------------------------------------------- list_tools
\* Variant: the membership test is dropped, every listed tool is added.
NotYetMappedAlways(tm, name) == TRUE

\* if tool.name not in tool_map
NotYetMapped(tm, name) == ~HasKey(tm, name)

\* The inner loop of list_tools over the first m tools one session lists.
RECURSIVE AddTools(_, _, _, _, _)
AddTools(acc, server_name, sid, listing, m) ==
    IF m = 0 THEN acc
    ELSE LET prev == AddTools(acc, server_name, sid, listing, m - 1)
             name == listing[m]
         IN  IF NotYetMapped(prev.tool_map, name)
             THEN [tool_map |-> Append(prev.tool_map, [key |-> name, val |-> server_name]),
                   tools    |-> Append(prev.tools, [name |-> name, by |-> sid])]
             ELSE prev

\* The outer loop of list_tools over the first n sessions.
RECURSIVE ListToolsUpTo(_, _, _)
ListToolsUpTo(sess, bl, n) ==
    IF n = 0 THEN [tool_map |-> <<>>, tools |-> <<>>]
    ELSE AddTools(ListToolsUpTo(sess, bl, n - 1), sess[n].key, sess[n].val,
                  bl[sess[n].val].listing, Len(bl[sess[n].val].listing))

ListToolsOutcome(sess, bl) == ListToolsUpTo(sess, bl, Len(sess))

\* --------------------------------------------------------------- call_tool
\* What a session does when its call_tool is awaited: it returns a result with
\* content items, each carrying a text, returns a result with no content item
\* (result.content[0] then raises IndexError), or raises.
SessionResults ==
    {[raises |-> "no",        content |-> << <<"ok">>, <<"more">> >>],
     [raises |-> "no",        content |-> <<>>],
     [raises |-> "Exception", content |-> <<>>]}

\* No session was called.
NoResult == [raises |-> "none", content |-> <<>>]

\* The arguments a caller passes to call_tool with each tool name, a dict:
\* a query for "search", no entry for the other names.
Arguments(tool_name) ==
    IF tool_name = "search" THEN {<<[key |-> "q", val |-> "x"]>>} ELSE {<<>>}

\* Variant: the text of the last content item is returned.
ContentTextLast(result) == result.content[Len(result.content)]

\* result.content[0].text
ContentText(result) == result.content[1]

\* What awaiting session.call_tool and reading result.content[0].text gives.
SessionCallOutcome(session, res) ==
    IF res.raises # "no"
    THEN [kind |-> "raise", exc |-> res.raises, value |-> NoneObs, target |-> session]
    ELSE IF res.content = <<>>
         THEN [kind |-> "raise", exc |-> "IndexError", value |-> NoneObs, target |-> session]
         ELSE [kind |-> "return", exc |-> "no", value |-> ContentText(res),
               target |-> session]

\* server_name = tool_map.get(tool_name); if not server_name
NotFound(tm, tool_name) == DictGetOr(tm, tool_name, None) = None

\* Variant: the table is indexed, tool_map[tool_name], and a name that is
\* absent raises.
CallToolOutcomeIndexed(tm, sess, tool_name, res) ==
    IF NotFound(tm, tool_name)
    THEN [kind |-> "raise", exc |-> "Exception", value |-> NoneObs, target |-> NoSession]
    ELSE LET session == DictGetOr(sess, DictGetOr(tm, tool_name, None), NoSession)
         IN  IF session = NoSession
             THEN [kind |-> "return", exc |-> "no", value |-> NoneObs, target |-> NoSession]
             ELSE SessionCallOutcome(session, res)

\* MultipleMCPClientManager.call_tool(tool_name, arguments, tool_map); target
\* is the session called (NoSession: none), res what that session does.
CallToolOutcome(tm, sess, tool_name, res) ==
    IF NotFound(tm, tool_name)
    THEN [kind |-> "return", exc |-> "no", value |-> NoneObs, target |-> NoSession]
    ELSE LET session == DictGetOr(sess, DictGetOr(tm, tool_name, None), NoSession)
         IN  IF session = NoSession
             THEN [kind |-> "return", exc |-> "no", value |-> NoneObs, target |-> NoSession]
             ELSE SessionCallOutcome(session, res)

\* ------------------------------------------------------------------ chunks
\* Every chunk, synthetic or received from the model, has one shape.  k is
\* "progress" or "error" for the chunks create_llm_chunk builds and one of
\* the provider's kinds for a chunk of a model response.
NoId == <<"none", 0>>
Chunk(k, idx, id, name, args, text) ==
    [k |-> k, idx |-> idx, id |-> id, name |-> name, args |-> args, text |-> text]

\* create_llm_chunk(chunk_type, content, provider)
create_llm_chunk(chunk_type, content) == Chunk(chunk_type, 0, NoId, "", <<>>, content)
PROGRESS == "progress"
ERROR == "error"

\* Chunks an OpenAI response stream is drawn from: content deltas, tool-call
\* deltas (index, id, function.name, function.arguments) and a chunk whose
\* choices list is empty, on which chunk.choices[0] raises IndexError.
OpenAIChunks ==
    { Chunk("content", 0, NoId, "", <<>>, <<"Hel">>),
      Chunk("content", 0, NoId, "", <<>>, <<"lo">>),
      Chunk("tool", 0, <<"prov", 1>>, "search", <<"{", "}">>, <<>>),
      Chunk("tool", 0, <<"prov", 1>>, "search", <<"{">>, <<>>),
      Chunk("tool", 0, NoId, "", <<"}">>, <<>>),
      Chunk("tool", 0, NoId, "fetch", <<>>, <<>>),
      Chunk("tool", 1, NoId, "ghost", <<"{", "}">>, <<>>),
      Chunk("bad", 0, NoId, "", <<>>, <<>>) }

\* Events an Anthropic response stream is drawn from: content_block_start of
\* a tool_use block, content_block_delta with an input_json_delta, any other
\* event, and a content_block_start without content_block (AttributeError).
AnthropicChunks ==
    { Chunk("block_start", 0, <<"prov", 1>>, "search", <<>>, <<>>),
      Chunk("block_start", 0, <<"prov", 2>>, "ghost", <<>>, <<>>),
      Chunk("json_delta", 0, NoId, "", <<"{", "}">>, <<>>),
      Chunk("json_delta", 0, NoId, "", <<"{">>, <<>>),
      Chunk("json_delta", 0, NoId, "", <<"}">>, <<>>),
      Chunk("other", 0, NoId, "", <<>>, <<"Hel">>),
      Chunk("bad", 0, NoId, "", <<>>, <<>>) }

ModelChunks(prov) == IF prov = "openai" THEN OpenAIChunks ELSE AnthropicChunks

\* The chunk asks for a tool call.
RequestsTool(c) == c.k \in {"tool", "block_start"}

\* json.loads(arguments): the only well-formed text of the model is "{}".
ParsesOK(args) == args = <<"{", "}">>

\* tool_args = json.loads(arguments): "{}" is the dict with no entry.
JsonLoads(args) == IF ParsesOK(args) THEN <<>> ELSE None

VARIABLES
    \* MCPChat
    provider,           \* "openai" or "anthropic": which process_*_stream_chat runs
    max_turns,
    messages,           \* the caller's history
    chat_messages,      \* the conversation
    pc,                 \* where the generator stands; "direct": no chat, the registry is used directly
    turn,               \* the loop variable of for turn in range(max_turns)
    final_tool_calls,   \* dict index -> tool call, in insertion order
    tool_index,
    current_tool_index, \* -1 for None
    content_buffer,
    tool_pos,           \* position of process_tool_calls in final_tool_calls.values()
    out,                \* the chunks yielded to the caller, in order
    budget,             \* chunks the model may still send in this run
    failed,             \* the outer except clause has run
    raised,             \* the exception __anext__ raised to the caller, "no" if none
    abandoned,          \* the caller stopped iterating before the end of the sequence
    \* history
    model_calls,        \* model calls made, initial and follow-up
    checked_calls,      \* the ones whose response went through the tool check
    followup_calls,     \* follow-up calls made
    tool_runs,          \* times process_tool_calls was entered
    invocations,        \* client_manager.call_tool invocations of the run
    all_request,        \* every response that ended so far asked for a tool call
    stream_requests,    \* the response being received has asked for a tool call
    last_tool,          \* the last tool call that was finalized or executed and how it went
    responses,          \* the model responses of the run and the chunks received from each
    end_signals,        \* CustomAsyncStream: the StopAsyncIteration raised to the caller after the end
    client,             \* MCPChat.client, the LLM client the caller passed in
    \* a tool object as a session listed it, and MCPHelper at work on it
    inputSchema,        \* tool.inputSchema, the dict the tool object holds
    listedSchema,       \* the value of tool.inputSchema when the tool was listed
    results,            \* what the direct calls of filter_mcp_input_schema returned, in order
    formatted,          \* format_tools_object_for_llm_call: the schema in the formatted tool
    schema_exc,         \* the exception the last call of MCPHelper raised, "no" if none
    \* MCPService over the table of MCP records
    mcps,               \* the table: record id -> row, NoRow where there is none
    issued,             \* ids given to created records so far
    last_op             \* the last service operation: who issued it and how it went

schemavars == <<inputSchema, listedSchema, results, formatted, schema_exc>>
svcvars == <<mcps, issued, last_op>>

chatvars == <<provider, max_turns, messages, chat_messages, pc, turn, final_tool_calls,
              tool_index, current_tool_index, content_buffer, tool_pos, out, budget,
              failed, raised, abandoned, model_calls, checked_calls, followup_calls,
              tool_runs, invocations, all_request, stream_requests, last_tool,
              responses, end_signals, client, schemavars, svcvars>>

vars == <<regvars, chatvars>>

\* client: Any, "The LLM client (OpenAI or Anthropic)": the provider's client
\* object, which has no attribute manager, or an object of the caller that
\* carries a manager of its own.
SdkClient == "sdk"
ManagedClient == "managed"
Clients == {SdkClient, ManagedClient}

NoTool == [kind |-> "none", id |-> NoId, name |-> "", round |-> 0, at |-> 0, outat |-> 0]
NoCall ==
    [op |-> "none", name |-> "", args |-> <<>>, kind |-> "none", exc |-> "no",
     value |-> NoneObs, target |-> NoSession, result |-> NoResult]

\* -------------------------------------------------- the registry, directly
DistinctNames(bl) == \A i, j \in 1..Len(bl) : bl[i].name = bl[j].name => i = j
StdioMaps == {m \in SeqsUpTo(BackendSet, MaxStdio) : DistinctNames(m)}
SseMaps == SeqsUpTo(BackendSet, MaxBackends)

Msg(role, kind, content, calls, ref) ==
    [role |-> role, kind |-> kind, content |-> content, calls |-> calls, ref |-> ref]
UserMessages == << Msg("user", "text", <<"hi">>, <<>>, NoId) >>

\* MultipleMCPClientManager.__init__
NewRegistry ==
    /\ sessions = <<>>
    /\ exit_stack = <<>>
    /\ opened = {}
    /\ closed = {}
    /\ reg = "new"
    /\ tool_map = <<>>
    /\ tools = <<>>
    /\ listed = FALSE
    /\ session_calls = <<>>
    /\ last_call = NoCall

\* MCPChat.__init__
NewChat(p, m, start) ==
    /\ provider = p
    /\ max_turns = m
    /\ messages = UserMessages
    /\ chat_messages = <<>>
    /\ pc = start
    /\ turn = 0
    /\ final_tool_calls = <<>>
    /\ tool_index = 0
    /\ current_tool_index = -1
    /\ content_buffer = <<>>
    /\ tool_pos = 0
    /\ out = <<>>
    /\ budget = MaxChunks
    /\ failed = FALSE
    /\ raised = "no"
    /\ abandoned = FALSE
    /\ model_calls = 0
    /\ checked_calls = 0
    /\ followup_calls = 0
    /\ tool_runs = 0
    /\ invocations = 0
    /\ all_request = TRUE
    /\ stream_requests = FALSE
    /\ last_tool = NoTool
    /\ responses = <<>>
    /\ end_signals = 0

\* ------------------------------------------------------------ input schemas
\* A JSON schema as far as filter_mcp_input_schema looks at it: whether it has
\* "properties" and the properties in order, "required" (absent, a value that
\* is not a list, or a list of keys), and whether "additionalProperties" is
\* present (and then its value).  A property holds whether it has a
\* "default", its "type" (absent, one name, or a list of names) and whether
\* "nullable" is set.
NoType == [kind |-> "absent", names |-> <<>>]
ScalarType(n) == [kind |-> "scalar", names |-> <<n>>]
ListType(ns) == [kind |-> "list", names |-> ns]
TypeNames == {"string", "integer", "null"}
Types ==
    {NoType, ScalarType("string")}
    \cup {ListType(ns) : ns \in SeqsUpTo(TypeNames, MaxTypes)}
Property(default, type, nullable) == [default |-> default, type |-> type, nullable |-> nullable]
PropertyValues == {Property(d, t, FALSE) : d \in BOOLEAN, t \in Types}
PropertyDicts ==
    {<<>>}
    \cup {<<[key |-> "q", val |-> v]>> : v \in PropertyValues}
    \cup {<<[key |-> "q", val |-> v], [key |-> "n", val |-> w]>> :
              v \in PropertyValues, w \in {Property(FALSE, t, FALSE) : t \in Types}}
NoRequired == [kind |-> "absent", keys |-> <<>>]
Requireds ==
    {NoRequired, [kind |-> "other", keys |-> <<>>]}
    \cup {[kind |-> "list", keys |-> ks] : ks \in {<<>>, <<"n">>, <<"z">>, <<"n", "q">>}}
Schema(has, props, req, addl) ==
    [has_properties |-> has, properties |-> props, required |-> req, additional |-> addl]
Schemas ==
    {Schema(FALSE, <<>>, r, "absent") : r \in {NoRequired, [kind |-> "list", keys |-> <<"z">>]}}
    \cup {Schema(TRUE, ps, r, a) :
              ps \in PropertyDicts, r \in Requireds, a \in {"absent", "true"}}
NoSchema == Schema(FALSE, <<>>, NoRequired, "absent")

RECURSIVE AppendMissing(_, _, _)
\* for key in properties.keys(): if key not in required: required.append(key)
AppendMissing(req, props, n) ==
    IF n = 0 THEN req
    ELSE LET prev == AppendMissing(req, props, n - 1)
         IN  IF props[n].key \in Range(prev) THEN prev ELSE Append(prev, props[n].key)

\* "required" after the first block of filter_mcp_input_schema.
EnsureRequired(req, props) ==
    IF req.kind # "list"
    THEN [kind |-> "list", keys |-> [i \in 1..Len(props) |-> props[i].key]]
    ELSE [kind |-> "list", keys |-> AppendMissing(req.keys, props, Len(props))]

IsNotNull(t) == t # "null"

\* Variant: the types that are not "null" are kept as a list.
UseOtherTypes(other) == ListType(other)

\* value["type"] = other_types[0]
UseFirstOther(other) == ScalarType(other[1])

\* The loop body of filter_mcp_input_schema for one property.
NormalizeProperty(v) ==
    LET w == [v EXCEPT !.default = FALSE]
    IN  IF w.type.kind = "list"
        THEN IF "null" \in Range(w.type.names)
             THEN LET other_types == SelectSeq(w.type.names, IsNotNull)
                  IN  IF other_types # <<>>
                      THEN [w EXCEPT !.type = UseFirstOther(other_types), !.nullable = TRUE]
                      ELSE w
             ELSE IF w.type.names = <<>> THEN w
                  ELSE [w EXCEPT !.type = ScalarType(w.type.names[1])]
        ELSE w

\* value["type"][0] on a list with no entry raises IndexError.
PropertyRaises(v) == v.type.kind = "list" /\ v.type.names = <<>>

\* The position of the first property the loop fails on, 0 if there is none.
FirstRaising(props) ==
    IF \E i \in 1..Len(props) : PropertyRaises(props[i].val)
    THEN CHOOSE i \in 1..Len(props) :
            /\ PropertyRaises(props[i].val)
            /\ \A j \in 1..(i - 1) : ~PropertyRaises(props[j].val)
    ELSE 0

\* filter_mcp_input_schema does not return: the loop raised IndexError.
FilterRaises(s) == s.has_properties /\ FirstRaising(s.properties) # 0

\* The properties when the loop ends: all normalized, or, when it failed on
\* property k, the ones before k normalized and the default of k deleted.
NormalizeProperties(props) ==
    LET k == FirstRaising(props)
    IN  [i \in 1..Len(props) |->
            [key |-> props[i].key,
             val |-> IF k = 0 \/ i < k THEN NormalizeProperty(props[i].val)
                     ELSE IF i = k THEN [props[i].val EXCEPT !.default = FALSE]
                     ELSE props[i].val]]

\* if "additionalProperties" not in input_schema, inside the properties
\* block and after the loop
EnsureAdditional(s) ==
    IF s.additional = "absent" /\ ~FilterRaises(s) THEN "false" ELSE s.additional

\* MCPHelper.filter_mcp_input_schema: the value of the dict when it returns
\* (the dict is changed in place and returned) or, where FilterRaises, when
\* the exception leaves it.
filter_mcp_input_schema(s) ==
    IF s.has_properties
    THEN [s EXCEPT
             !.required = EnsureRequired(s.required, s.properties),
             !.properties = NormalizeProperties(s.properties),
             !.additional = EnsureAdditional(s)]
    ELSE s

\* ----------------------------------------------------------- MCP records
UserIds == {"alice", "bob"}
NoUser == None                      \* user_data is None
McpIds == 1..MaxRecords
McpNames == {"n1", "n2"}
Row(u, n, i) == [user_id |-> u, mcp_name |-> n, inactive |-> i]
Rows == {Row(u, n, i) : u \in UserIds, n \in McpNames, i \in BOOLEAN}
NoRow == Row(None, None, FALSE)     \* no record has the id
\* What a service operation hands back: a record, True, or nothing (None, or
\* the operation raised).
ReturnsRecord(row) == [kind |-> "record", row |-> row]
ReturnsTrue == [kind |-> "True", row |-> NoRow]
ReturnsNothing == [kind |-> "none", row |-> NoRow]
NoOp ==
    [op |-> "none", seq |-> 0, mcp_id |-> 0, user |-> NoUser, fault |-> "none",
     exc |-> "no", writes |-> 0, commits |-> 0, rollbacks |-> 0,
     value |-> ReturnsNothing, status |-> 0]

\* No MCPService is at hand.
NoService ==
    /\ mcps = [id \in McpIds |-> NoRow]
    /\ issued = 0
    /\ last_op = NoOp

\* No tool object is at hand: the registry and the run do not look at schemas.
NoToolObject ==
    /\ inputSchema = NoSchema
    /\ listedSchema = NoSchema
    /\ results = <<>>
    /\ formatted = <<>>
    /\ schema_exc = "no"

InitRegistry ==
    /\ stdio_server_map \in StdioMaps
    /\ sse_server_map \in SseMaps
    /\ NewRegistry
    /\ NewChat("openai", 0, "direct")
    /\ NoToolObject
    /\ NoService
    /\ client = SdkClient

\* The registry fields after initialize() went as o says.
Initialized(o) ==
    /\ sessions' = o.sessions
    /\ exit_stack' = o.stack
    /\ opened' = opened \cup o.entered
    /\ closed' = closed \cup (o.entered \ Range(o.stack))
    /\ reg' = IF o.ok THEN "ready" ELSE "failed"

InitChoices(bl) ==
    {<<0, "transport">>} \cup {<<k, step>> : k \in 1..Len(bl), step \in InitSteps}

\* await manager.initialize()
Initialize ==
    /\ pc = "direct"
    /\ reg = "new"
    /\ \E ch \in InitChoices(Backends) :
          Initialized(InitializeOutcome(Backends, ch[1], ch[2]))
    /\ UNCHANGED <<stdio_server_map, sse_server_map, tool_map, tools, listed,
                   session_calls, last_call, chatvars>>

\* await manager.list_tools(); a session's list_tools() may raise
ListTools ==
    /\ pc = "direct"
    /\ reg \in {"ready", "failed"}
    /\ \E fails \in {f \in BOOLEAN : f => Len(sessions) > 0} :
          IF fails
          THEN /\ last_call' = [NoCall EXCEPT !.op = "list_tools", !.kind = "raise"]
               /\ UNCHANGED <<tool_map, tools, listed>>
          ELSE /\ tool_map' = ListToolsOutcome(sessions, Backends).tool_map
               /\ tools' = ListToolsOutcome(sessions, Backends).tools
               /\ listed' = TRUE
               /\ last_call' = [NoCall EXCEPT !.op = "list_tools", !.kind = "return"]
    /\ UNCHANGED <<stdio_server_map, sse_server_map, sessions, exit_stack, opened, closed,
                   reg, session_calls, chatvars>>

\* The session call that call_tool made, if it made one.
Called(calls, o, tool_name, arguments) ==
    IF o.target = NoSession THEN calls
    ELSE Append(calls, [sid |-> o.target, name |-> tool_name, args |-> arguments])

\* What the called session answered, if one was called.
Answered(o, res) == IF o.target = NoSession THEN NoResult ELSE res

\* await manager.call_tool(tool_name, arguments, tool_map)
CallTool ==
    /\ pc = "direct"
    /\ reg \in {"ready", "failed"}
    /\ Len(session_calls) < MaxCalls
    /\ \E tool_name \in ToolNames, res \in SessionResults :
       \E arguments \in Arguments(tool_name) :
          LET o == CallToolOutcome(tool_map, sessions, tool_name, res)
          IN  /\ session_calls' = Called(session_calls, o, tool_name, arguments)
              /\ last_call' = [op |-> "call_tool", name |-> tool_name, args |-> arguments,
                               kind |-> o.kind, exc |-> o.exc, value |-> o.value,
                               target |-> o.target,
                               result |-> Answered(o, res)]
    /\ UNCHANGED <<stdio_server_map, sse_server_map, sessions, exit_stack, opened, closed,
                   reg, tool_map, tools, listed, chatvars>>

\* Variant: only the sessions are closed, the transports are left open.
AcloseSessions(stack) == {r \in Range(stack) : r.res = "session"}

\* exit_stack.aclose(): every context entered on the stack is exited.
Aclose(stack) == Range(stack)

\* await manager.close(): exit_stack.aclose()
Close ==
    /\ pc = "direct"
    /\ reg # "closed"
    /\ closed' = closed \cup Aclose(exit_stack)
    /\ exit_stack' = <<>>
    /\ reg' = "closed"
    /\ UNCHANGED <<stdio_server_map, sse_server_map, sessions, opened, tool_map, tools,
                   listed, session_calls, last_call, chatvars>>

NextRegistry == Initialize \/ ListTools \/ CallTool \/ Close

SpecRegistry == InitRegistry /\ [][NextRegistry]_vars

\* ---------------------------------------------------- MCPClient, one server
\* MCPClient.__init__(sse_url, stdio_params): one server, given one way or the
\* other; self.session = None and a fresh exit stack.
InitClient ==
    /\ \E b \in BackendSet, stdio \in BOOLEAN :
          /\ stdio_server_map = IF stdio THEN <<b>> ELSE <<>>
          /\ sse_server_map = IF stdio THEN <<>> ELSE <<b>>
    /\ NewRegistry
    /\ NewChat("openai", 0, "client")
    /\ NoToolObject
    /\ NoService
    /\ client = SdkClient

\* self.session; NoSession while it is None.
ClientSessionOf(sess) == DictGetOr(sess, "self", NoSession)

\* MCPClient.initialize(): the transport and the session are entered on the
\* exit stack; self.session is assigned before session.initialize() is
\* awaited; the except clause logs and re-raises.
ClientInitializeOutcome(step) ==
    [ok       |-> step = "none",
     sessions |-> IF step \in {"none", "handshake"}
                  THEN <<[key |-> "self", val |-> 1]>> ELSE <<>>,
     stack    |-> IF step = "none" THEN StackAll(1) ELSE PartialStack(1, step),
     entered  |-> IF step = "none" THEN Range(StackAll(1))
                  ELSE Range(PartialStack(1, step))]

\* await client.initialize()
ClientInitialize ==
    /\ pc = "client"
    /\ reg = "new"
    /\ \E step \in InitSteps \cup {"none"} : Initialized(ClientInitializeOutcome(step))
    /\ UNCHANGED <<stdio_server_map, sse_server_map, tool_map, tools, listed,
                   session_calls, last_call, chatvars>>

\* await client.list_tools(): RuntimeError without a session, else tools.tools
ClientListTools ==
    /\ pc = "client"
    /\ reg # "closed"
    /\ IF ClientSessionOf(sessions) = NoSession
       THEN /\ last_call' = [NoCall EXCEPT !.op = "list_tools", !.kind = "raise",
                                           !.exc = "RuntimeError"]
            /\ UNCHANGED <<tools, listed>>
       ELSE \E fails \in BOOLEAN :
               IF fails
               THEN /\ last_call' = [NoCall EXCEPT !.op = "list_tools", !.kind = "raise",
                                                   !.exc = "Exception",
                                                   !.target = ClientSessionOf(sessions)]
                    /\ UNCHANGED <<tools, listed>>
               ELSE /\ tools' = [i \in 1..Len(Backends[1].listing) |->
                                    [name |-> Backends[1].listing[i], by |-> 1]]
                    /\ listed' = TRUE
                    /\ last_call' = [NoCall EXCEPT !.op = "list_tools", !.kind = "return",
                                                   !.target = ClientSessionOf(sessions)]
    /\ UNCHANGED <<stdio_server_map, sse_server_map, sessions, exit_stack, opened, closed,
                   reg, tool_map, session_calls, chatvars>>

\* MCPClient.call_tool(tool_name, arguments)
ClientCallToolOutcome(sess, res) ==
    IF ClientSessionOf(sess) = NoSession
    THEN [kind |-> "raise", exc |-> "RuntimeError", value |-> NoneObs, target |-> NoSession]
    ELSE SessionCallOutcome(ClientSessionOf(sess), res)

\* await client.call_tool(tool_name, arguments)
ClientCallTool ==
    /\ pc = "client"
    /\ reg # "closed"
    /\ Len(session_calls) < MaxCalls
    /\ \E tool_name \in ToolNames, res \in SessionResults :
       \E arguments \in Arguments(tool_name) :
          LET o == ClientCallToolOutcome(sessions, res)
          IN  /\ session_calls' = Called(session_calls, o, tool_name, arguments)
              /\ last_call' = [op |-> "call_tool", name |-> tool_name, args |-> arguments,
                               kind |-> o.kind, exc |-> o.exc, value |-> o.value,
                               target |-> o.target,
                               result |-> Answered(o, res)]
    /\ UNCHANGED <<stdio_server_map, sse_server_map, sessions, exit_stack, opened, closed,
                   reg, tool_map, tools, listed, chatvars>>

\* await client.close(): exit_stack.aclose()
ClientClose ==
    /\ pc = "client"
    /\ reg # "closed"
    /\ closed' = closed \cup Aclose(exit_stack)
    /\ exit_stack' = <<>>
    /\ reg' = "closed"
    /\ UNCHANGED <<stdio_server_map, sse_server_map, sessions, opened, tool_map, tools,
                   listed, session_calls, last_call, chatvars>>

NextClient == ClientInitialize \/ ClientListTools \/ ClientCallTool \/ ClientClose

\* Either object driven by a direct caller.
InitCaller == InitRegistry \/ InitClient
NextCaller == NextRegistry \/ NextClient
SpecClient == InitCaller /\ [][NextCaller]_vars

\* ------------------------------------------------- the generator's handlers
\* Exceptions a failing step raises; all are subclasses of Exception.
ExcKinds == {"Exception", "IndexError"}

\* Variant: the outer clause names a narrower exception class.
OuterCatchesNarrow(e) == e # "IndexError"

\* except Exception as e (the outer clause of process_*_stream_chat)
OuterCatches(e) == TRUE

\* Variant: the try statement sits inside the loop, the next turn goes on.
OuterExceptContinue(t) == [pc |-> "loop", turn |-> t + 1]

\* The outer clause yields one ERROR chunk; the generator then returns.
OuterExcept(t) == [pc |-> "done", turn |-> t]

\* CustomAsyncStream.__anext__: StopAsyncIteration passes as the end of the
\* sequence, IndexError becomes RuntimeError, anything else propagates.
AnextRaises(e) == IF e = "IndexError" THEN "RuntimeError" ELSE e

\* A step of the generator raises e after it has yielded the chunks o.
Fail(o, e) ==
    IF OuterCatches(e)
    THEN /\ out' = Append(o, create_llm_chunk(ERROR, <<"Error", e>>))
         /\ failed' = TRUE
         /\ raised' = raised
         /\ pc' = OuterExcept(turn).pc
         /\ turn' = OuterExcept(turn).turn
    ELSE /\ out' = o
         /\ failed' = failed
         /\ raised' = AnextRaises(e)
         /\ pc' = "done"
         /\ turn' = turn

\* except Exception as e (the clause around the processing of one chunk)
InnerCatches(e) == TRUE

\* ------------------------------------------------------------ reassembly
ToolCall(id, name, args) == [id |-> id, name |-> name, args |-> args]
Acc(ftc, ti, cur, buf, exc) ==
    [ftc |-> ftc, tool_index |-> ti, current |-> cur, buffer |-> buf, exc |-> exc]

\* Variant: a later fragment takes the place of the text accumulated so far.
AppendArgumentsReplace(old, frag) == IF frag # <<>> THEN frag ELSE old

\* if tool_call.function.arguments: ...["arguments"] += tool_call.function.arguments
AppendArguments(old, frag) == old \o frag

\* Variant: a later text delta takes the place of the buffer.
AppendContentReplace(buf, text) == text

\* if delta.content: content_buffer += delta.content
AppendContent(buf, text) == buf \o text

\* The body of the try block of process_openai_stream_chat for one chunk.
ProcessOpenAI(ftc, ti, cur, buf, c) ==
    CASE c.k = "bad" -> Acc(ftc, ti, cur, buf, "IndexError")
      [] c.k = "tool" ->
            IF ~HasKey(ftc, c.idx)
            THEN Acc(DictPut(ftc, c.idx,
                             ToolCall(IF c.id # NoId THEN c.id ELSE <<"call", ti>>,
                                      c.name, c.args)),
                     ti + 1, cur, buf, "no")
            ELSE LET old == DictGetOr(ftc, c.idx, ToolCall(NoId, "", <<>>))
                 IN  Acc(DictPut(ftc, c.idx,
                                 ToolCall(old.id,
                                          IF c.name # "" THEN c.name ELSE old.name,
                                          AppendArguments(old.args, c.args))),
                         ti, cur, buf, "no")
      [] c.k = "content" -> Acc(ftc, ti, cur, AppendContent(buf, c.text), "no")
      [] OTHER -> Acc(ftc, ti, cur, buf, "no")

\* The body of the try block of process_anthropic_stream_chat for one chunk.
ProcessAnthropic(ftc, ti, cur, buf, c) ==
    CASE c.k = "bad" -> Acc(ftc, ti, cur, buf, "Exception")
      [] c.k = "block_start" ->
            Acc(DictPut(ftc, ti, ToolCall(c.id, c.name, <<>>)), ti + 1, ti, buf, "no")
      [] c.k = "json_delta" ->
            IF cur # -1 /\ HasKey(ftc, cur)
            THEN LET old == DictGetOr(ftc, cur, ToolCall(NoId, "", <<>>))
                 IN  Acc(DictPut(ftc, cur, ToolCall(old.id, old.name, old.args \o c.args)),
                         ti, cur, buf, "no")
            ELSE Acc(ftc, ti, cur, buf, "no")
      [] OTHER -> Acc(ftc, ti, cur, buf, "no")

ProcessChunk(prov, ftc, ti, cur, buf, c) ==
    IF prov = "openai" THEN ProcessOpenAI(ftc, ti, cur, buf, c)
    ELSE ProcessAnthropic(ftc, ti, cur, buf, c)

\* final_tool_calls.values(), in order
Values(ftc) == [i \in 1..Len(ftc) |-> ftc[i].val]

\* Variant: the list is built back to front.
convert_to_openai_tool_format_reversed(ftc) ==
    [i \in 1..Len(ftc) |-> Values(ftc)[Len(ftc) + 1 - i]]

\* MCPHelper.convert_to_openai_tool_format: copies id, name and arguments.
convert_to_openai_tool_format(ftc) == Values(ftc)

\* Variant: the arguments text is passed on without being parsed.
AnthropicConvertibleAlways(ftc) == TRUE

\* MCPHelper.convert_to_anthropic_tool_format: json.loads of every arguments
\* text; it raises when one of them does not parse.
AnthropicConvertible(ftc) == \A i \in 1..Len(ftc) : ParsesOK(ftc[i].val.args)
convert_to_anthropic_tool_format(ftc) == Values(ftc)

\* Variant: the observation is passed on without str().
StrOmitted(obs) == obs

\* str(observation)
Str(obs) == IF obs = NoneObs THEN NoneText ELSE obs

\* Variant: the message does not carry the id of the tool call it answers.
create_tool_result_message_noid(id, observation, prov) ==
    IF prov = "anthropic" THEN Msg("user", "tool_result", observation, <<>>, NoId)
    ELSE Msg("tool", "tool_result", observation, <<>>, NoId)

\* MCPHelper.create_tool_result_message(tool_call_id, observation, provider)
create_tool_result_message(id, observation, prov) ==
    IF prov = "anthropic" THEN Msg("user", "tool_result", observation, <<>>, id)
    ELSE Msg("tool", "tool_result", observation, <<>>, id)

\* Variant: the loop runs one turn too many.
InRangeInclusive(t, m) == t <= m

\* for turn in range(self.max_turns)
InRange(t, m) == t < m

\* Variant: a single tool call does not count as tool calls.
HasToolCallsSeveral(ftc) == Len(ftc) > 1

\* if final_tool_calls:
HasToolCalls(ftc) == Len(ftc) > 0

\* -------------------------------------------------------- the streaming run
Providers == {"openai", "anthropic"}
ChatListings == {<<"search">>}
ChatMaps ==
    {m \in SeqsUpTo([name : ServerNames, listing : ChatListings], MaxBackends) : Len(m) > 0}

\* create_openai_stream / create_anthropic_stream: MCPChat(**kwargs) wrapped
\* in a CustomAsyncStream; setup_client passes an empty stdio_server_map.
InitChat ==
    /\ stdio_server_map = <<>>
    /\ sse_server_map \in ChatMaps
    /\ NewRegistry
    /\ \E p \in Providers, m \in 0..MaxTurnsBound : NewChat(p, m, "start")
    /\ NoToolObject
    /\ NoService
    /\ client = SdkClient

Running == ~abandoned /\ raised = "no"

histcore == <<model_calls, checked_calls, followup_calls, tool_runs, invocations,
              all_request, stream_requests, last_tool, responses, end_signals, client, svcvars>>
histvars == <<model_calls, checked_calls, followup_calls, tool_runs, invocations,
              all_request, stream_requests, last_tool, responses, end_signals, client,
              schemavars, svcvars>>

\* A response of the model: checked (the response of a turn) or follow-up, the
\* chunks received from it so far, and whether its stream has ended.
Response(kind) == [kind |-> kind, chunks |-> <<>>, ended |-> FALSE]
Received(rs, c) == [rs EXCEPT ![Len(rs)].chunks = Append(@, c)]
Ended(rs) == [rs EXCEPT ![Len(rs)].ended = TRUE]
accvars == <<final_tool_calls, tool_index, current_tool_index, content_buffer>>
cfgvars == <<provider, max_turns, messages, stdio_server_map, sse_server_map>>

\* Variant: nothing is yielded before setup.
WarmingUpOmitted(o) == o

\* yield create_llm_chunk(PROGRESS, "Warming up the thinking engine..."), the
\* first statement of the try block, ahead of setup_client().
WarmingUp(o) == Append(o, create_llm_chunk(PROGRESS, <<"Warming up">>))

\* The first yield of the generator.
Start ==
    /\ pc = "start"
    /\ Running
    /\ out' = WarmingUp(out)
    /\ pc' = "setup"
    /\ UNCHANGED <<regvars, provider, max_turns, messages, chat_messages, turn, accvars,
                   tool_pos, budget, failed, raised, abandoned, histvars>>

\* Variant: the conversation is the caller's list itself, not a copy.
SnapshotAlias(ms) == [list |-> ms, same_object |-> TRUE]

\* self.chat_messages = self.messages[:]: a new list holding the same messages
Snapshot(ms) == [list |-> ms, same_object |-> FALSE]

\* self.messages once the conversation has become cm: an append to the
\* conversation shows in the caller's list only if both are one list object.
CallerList(ms, cm) == IF Snapshot(ms).same_object THEN cm ELSE ms

\* await self.setup_client(provider): initialize(), list_tools(), the tools
\* formatted for the provider, the conversation copied from the history.
SetupClient ==
    /\ pc = "setup"
    /\ Running
    /\ \E ch \in InitChoices(Backends) :
          LET o == InitializeOutcome(Backends, ch[1], ch[2])
          IN  /\ Initialized(o)
              /\ \E fails \in {f \in BOOLEAN : f => (o.ok /\ Len(o.sessions) > 0)} :
                    IF o.ok /\ ~fails
                    THEN /\ tool_map' = ListToolsOutcome(o.sessions, Backends).tool_map
                         /\ tools' = ListToolsOutcome(o.sessions, Backends).tools
                         /\ listed' = TRUE
                         /\ chat_messages' = Snapshot(messages).list
                         /\ pc' = "loop"
                         /\ UNCHANGED <<out, failed, raised, turn>>
                    ELSE /\ Fail(out, "Exception")
                         /\ UNCHANGED <<tool_map, tools, listed, chat_messages>>
    /\ UNCHANGED <<cfgvars, session_calls, last_call, accvars, tool_pos, budget,
                   abandoned, histvars>>

\* The chunk yielded at the head of the first turn.
Analyzing(o, t) ==
    IF t = 0 THEN Append(o, create_llm_chunk(PROGRESS, <<"Analyzing">>)) ELSE o

\* The head of a turn: the model is called with the conversation and the tools.
ModelCall ==
    /\ pc = "loop"
    /\ Running
    /\ InRange(turn, max_turns)
    /\ model_calls' = model_calls + 1
    /\ checked_calls' = checked_calls + 1
    /\ \E r \in {"no"} \cup ExcKinds :
          IF r = "no"
          THEN /\ out' = Analyzing(out, turn)
               /\ pc' = "stream"
               /\ final_tool_calls' = <<>>
               /\ tool_index' = 0
               /\ current_tool_index' = -1
               /\ content_buffer' = <<>>
               /\ stream_requests' = FALSE
               /\ responses' = Append(responses, Response("checked"))
               /\ UNCHANGED <<failed, raised, turn>>
          ELSE /\ Fail(Analyzing(out, turn), r)
               /\ UNCHANGED <<accvars, stream_requests, responses>>
    /\ UNCHANGED <<regvars, end_signals, client, schemavars, svcvars, provider, max_turns, messages, chat_messages, tool_pos, budget,
                   abandoned, followup_calls, tool_runs, invocations, all_request, last_tool>>

\* range(max_turns) is exhausted: the generator returns.
LoopExit ==
    /\ pc = "loop"
    /\ Running
    /\ ~InRange(turn, max_turns)
    /\ pc' = "done"
    /\ UNCHANGED <<regvars, provider, max_turns, messages, chat_messages, turn, accvars,
                   tool_pos, out, budget, failed, raised, abandoned, histvars>>

\* One chunk of the response of the turn: processed, then passed through; if
\* processing raises, an ERROR chunk is yielded instead and the loop goes on.
StreamChunk ==
    /\ pc = "stream"
    /\ Running
    /\ budget > 0
    /\ budget' = budget - 1
    /\ \E c \in ModelChunks(provider) :
          LET a == ProcessChunk(provider, final_tool_calls, tool_index,
                                current_tool_index, content_buffer, c)
          IN  /\ final_tool_calls' = a.ftc
              /\ tool_index' = a.tool_index
              /\ current_tool_index' = a.current
              /\ content_buffer' = a.buffer
              /\ stream_requests' = (stream_requests \/ RequestsTool(c))
              /\ responses' = Received(responses, c)
              /\ IF a.exc = "no"
                 THEN /\ out' = Append(out, c)
                      /\ UNCHANGED <<pc, failed, raised, turn>>
                 ELSE IF InnerCatches(a.exc)
                      THEN /\ out' = Append(out, create_llm_chunk(ERROR,
                                                  <<"Error processing response", a.exc>>))
                           /\ UNCHANGED <<pc, failed, raised, turn>>
                      ELSE Fail(out, a.exc)
    /\ UNCHANGED <<regvars, end_signals, client, schemavars, svcvars, provider, max_turns, messages, chat_messages, tool_pos,
                   abandoned, model_calls, checked_calls, followup_calls, tool_runs,
                   invocations, all_request, last_tool>>

\* Iterating the response stream raises.
StreamRaise ==
    /\ pc \in {"stream", "followup"}
    /\ Running
    /\ Fail(out, "Exception")
    /\ UNCHANGED <<regvars, provider, max_turns, messages, chat_messages, accvars,
                   tool_pos, budget, abandoned, histvars>>

\* The assistant message that carries the tool calls of the turn.
AssistantToolCalls(prov, ftc) ==
    IF prov = "openai"
    THEN Msg("assistant", "tool_calls", <<>>, convert_to_openai_tool_format(ftc), NoId)
    ELSE Msg("assistant", "tool_use", <<>>, convert_to_anthropic_tool_format(ftc), NoId)

UsingTools == create_llm_chunk(PROGRESS, <<"Using MCP tools">>)

ToolRecord(kind, tc, round, at, outat) ==
    [kind |-> kind, id |-> tc.id, name |-> tc.name, round |-> round, at |-> at,
     outat |-> outat]

\* The tool call on which the list comprehension of
\* convert_to_anthropic_tool_format raises: the first whose text does not parse.
FirstUnparsed(ftc) ==
    ftc[CHOOSE i \in 1..Len(ftc) :
            /\ ~ParsesOK(ftc[i].val.args)
            /\ \A j \in 1..(i - 1) : ParsesOK(ftc[j].val.args)].val

\* The response of the turn has ended: the tool check.
StreamEnd ==
    /\ pc = "stream"
    /\ Running
    /\ all_request' = (all_request /\ stream_requests)
    /\ responses' = Ended(responses)
    /\ IF HasToolCalls(final_tool_calls)
       THEN IF provider = "anthropic" /\ ~AnthropicConvertible(final_tool_calls)
            THEN /\ Fail(out, "Exception")
                 /\ last_tool' = ToolRecord("badargs", FirstUnparsed(final_tool_calls),
                                            tool_runs + 1, 0, 0)
                 /\ UNCHANGED <<chat_messages, tool_pos, tool_runs>>
            ELSE /\ chat_messages' =
                       Append(chat_messages, AssistantToolCalls(provider, final_tool_calls))
                 /\ out' = Append(out, UsingTools)
                 /\ pc' = "tools"
                 /\ tool_pos' = 1
                 /\ tool_runs' = tool_runs + 1
                 /\ UNCHANGED <<failed, raised, turn, last_tool>>
       ELSE /\ chat_messages' =
                  IF provider = "openai" /\ content_buffer # <<>>
                  THEN Append(chat_messages,
                              Msg("assistant", "text", content_buffer, <<>>, NoId))
                  ELSE chat_messages
            /\ pc' = "done"
            /\ UNCHANGED <<out, failed, raised, turn, tool_pos, tool_runs, last_tool>>
    /\ UNCHANGED <<regvars, end_signals, client, schemavars, svcvars, provider, max_turns, accvars, budget, abandoned,
                   model_calls, checked_calls, followup_calls, invocations,
                   stream_requests>>
    /\ messages' = CallerList(messages, chat_messages')

\* Variant: the call is guarded and a raise becomes the observation.
PropagatesNever(o) == FALSE

\* await call_tool(...) in process_tool_calls is not guarded: a raise leaves
\* process_tool_calls and reaches the outer clause of the run.
Propagates(o) == o.kind = "raise"

\* One pass of the loop of process_tool_calls.
ExecTool ==
    /\ pc = "tools"
    /\ Running
    /\ tool_pos <= Len(final_tool_calls)
    /\ LET tc == Values(final_tool_calls)[tool_pos]
           executing == Append(out, create_llm_chunk(PROGRESS, <<"Executing tool", tc.name>>))
       IN  IF ~ParsesOK(tc.args)
           THEN /\ Fail(out, "Exception")
                /\ last_tool' = ToolRecord("badargs", tc, tool_runs, 0, 0)
                /\ UNCHANGED <<chat_messages, tool_pos, invocations, session_calls>>
           ELSE \E res \in SessionResults :
                   LET o == CallToolOutcome(tool_map, sessions, tc.name, res)
                   IN  /\ invocations' = invocations + 1
                       /\ session_calls' = Called(session_calls, o, tc.name, JsonLoads(tc.args))
                       /\ IF Propagates(o)
                          THEN /\ Fail(executing, o.exc)
                               /\ last_tool' = ToolRecord("raise", tc, tool_runs, 0, 0)
                               /\ UNCHANGED <<chat_messages, tool_pos>>
                          ELSE /\ chat_messages' =
                                     Append(chat_messages,
                                            create_tool_result_message(tc.id, Str(o.value),
                                                                       provider))
                               /\ out' = Append(executing,
                                            create_llm_chunk(PROGRESS,
                                                <<"Tool execution complete", tc.name>>))
                               /\ tool_pos' = tool_pos + 1
                               /\ last_tool' =
                                     ToolRecord(IF o.target = NoSession THEN "notfound"
                                                ELSE IF o.kind = "raise" THEN "contained"
                                                ELSE "text",
                                                tc, tool_runs, Len(chat_messages) + 1,
                                                Len(out) + 2)
                               /\ UNCHANGED <<pc, failed, raised, turn>>
    /\ UNCHANGED <<provider, max_turns, stdio_server_map, sse_server_map, end_signals, client, schemavars, svcvars, sessions, exit_stack, opened, closed, reg, tool_map, tools,
                   listed, last_call, accvars, budget, abandoned, model_calls,
                   checked_calls, followup_calls, tool_runs, all_request, stream_requests,
                   responses>>
    /\ messages' = CallerList(messages, chat_messages')

\* Variant: the loop ends without its final chunk.
AfterToolsSilent(o) ==
    o \o << create_llm_chunk(PROGRESS, <<"Information gathered">>) >>

\* The last chunk of process_tool_calls and the chunk that follows it.
AfterTools(o) ==
    o \o << create_llm_chunk(PROGRESS, <<"All tools executed successfully">>),
            create_llm_chunk(PROGRESS, <<"Information gathered">>) >>

\* The loop of process_tool_calls is over: the follow-up model call.
FollowUp ==
    /\ pc = "tools"
    /\ Running
    /\ tool_pos > Len(final_tool_calls)
    /\ model_calls' = model_calls + 1
    /\ followup_calls' = followup_calls + 1
    /\ \E r \in {"no"} \cup ExcKinds :
          IF r = "no"
          THEN /\ out' = AfterTools(out)
               /\ pc' = "followup"
               /\ stream_requests' = FALSE
               /\ responses' = Append(responses, Response("followup"))
               /\ UNCHANGED <<failed, raised, turn>>
          ELSE /\ Fail(AfterTools(out), r)
               /\ UNCHANGED <<stream_requests, responses>>
    /\ UNCHANGED <<regvars, end_signals, client, schemavars, svcvars, provider, max_turns, messages, chat_messages, accvars, tool_pos,
                   budget, abandoned, checked_calls, tool_runs, invocations, all_request,
                   last_tool>>

\* Variant: the chunks of the follow-up response are processed like those of
\* the response of the turn.
FollowUpProcessChecked(prov, ftc, ti, cur, buf, c) == ProcessChunk(prov, ftc, ti, cur, buf, c)

\* The body of the loop over the follow-up response, "yield chunk" alone: the
\* chunk is not looked at and the accumulators stay as they are.
FollowUpProcess(prov, ftc, ti, cur, buf, c) == Acc(ftc, ti, cur, buf, "no")

\* One chunk of the follow-up response: passed through.
FollowUpChunk ==
    /\ pc = "followup"
    /\ Running
    /\ budget > 0
    /\ budget' = budget - 1
    /\ \E c \in ModelChunks(provider) :
          LET a == FollowUpProcess(provider, final_tool_calls, tool_index,
                                   current_tool_index, content_buffer, c)
          IN  /\ final_tool_calls' = a.ftc
              /\ tool_index' = a.tool_index
              /\ current_tool_index' = a.current
              /\ content_buffer' = a.buffer
              /\ out' = Append(out, c)
              /\ stream_requests' = (stream_requests \/ RequestsTool(c))
              /\ responses' = Received(responses, c)
    /\ UNCHANGED <<regvars, end_signals, client, schemavars, svcvars, provider, max_turns, messages, chat_messages, pc, turn,
                   tool_pos, failed, raised, abandoned, model_calls, checked_calls,
                   followup_calls, tool_runs, invocations, all_request, last_tool>>

\* Variant: the loop variable is not advanced.
NextTurnSame(t) == t

\* for turn in range(self.max_turns): the loop variable at the next pass.
NextTurn(t) == t + 1

\* The follow-up response has ended: the next turn.
FollowUpEnd ==
    /\ pc = "followup"
    /\ Running
    /\ all_request' = (all_request /\ stream_requests)
    /\ turn' = NextTurn(turn)
    /\ pc' = "loop"
    /\ responses' = Ended(responses)
    /\ UNCHANGED <<regvars, end_signals, client, schemavars, svcvars, provider, max_turns, messages, chat_messages, accvars, tool_pos,
                   out, budget, failed, raised, abandoned, model_calls, checked_calls,
                   followup_calls, tool_runs, invocations, stream_requests, last_tool>>

\* The caller stops iterating while the generator is suspended at a yield.
Abandon ==
    /\ pc \notin {"start", "done", "direct"}
    /\ Running
    /\ abandoned' = TRUE
    /\ UNCHANGED <<regvars, provider, max_turns, messages, chat_messages, pc, turn, accvars,
                   tool_pos, out, budget, failed, raised, histvars>>

Next ==
    \/ Start \/ SetupClient \/ ModelCall \/ LoopExit \/ StreamChunk \/ StreamRaise
    \/ StreamEnd \/ ExecTool \/ FollowUp \/ FollowUpChunk \/ FollowUpEnd \/ Abandon

Spec == InitChat /\ [][Next]_vars

\* The run under a caller that iterates until the sequence ends: every step
\* but Abandon. The event loop resumes the generator whenever the caller asks
\* for the next chunk, every response stream ends and every session call
\* returns or raises, so a step that can be taken is taken.
NextRun ==
    \/ Start \/ SetupClient \/ ModelCall \/ LoopExit \/ StreamChunk \/ StreamRaise
    \/ StreamEnd \/ ExecTool \/ FollowUp \/ FollowUpChunk \/ FollowUpEnd

\* constants.BUILTIN_MCP_SERVERS: one SSE server.
BUILTIN_MCP_SERVERS == << [name |-> "a", listing |-> <<"search">>] >>

\* MCPChat() without mcp_servers: the run uses BUILTIN_MCP_SERVERS.
InitLive ==
    /\ stdio_server_map = <<>>
    /\ sse_server_map = BUILTIN_MCP_SERVERS
    /\ NewRegistry
    /\ \E p \in Providers, m \in 0..MaxTurnsBound : NewChat(p, m, "start")
    /\ NoToolObject
    /\ NoService
    /\ client = SdkClient

SpecLive == InitLive /\ [][NextRun]_vars /\ WF_vars(NextRun)

\* Variant: __aiter__ makes a new generator.
AiterFresh(p) == "start"

\* CustomAsyncStream.__aiter__ returns self: the generator made by __init__,
\* where it stands.
Aiter(p) == p

\* The caller asks the stream for a chunk after the generator has returned,
\* by __anext__ or by iterating it again (__aiter__, then __anext__): the
\* exhausted generator raises StopAsyncIteration, which __anext__ re-raises.
AnextExhausted ==
    /\ pc = "done"
    /\ Running
    /\ end_signals < MaxPulls
    /\ end_signals' = end_signals + 1
    /\ \E again \in BOOLEAN : pc' = IF again THEN Aiter(pc) ELSE pc
    /\ UNCHANGED <<regvars, provider, max_turns, messages, chat_messages, turn, accvars,
                   tool_pos, out, budget, failed, raised, abandoned, model_calls,
                   checked_calls, followup_calls, tool_runs, invocations, all_request,
                   stream_requests, last_tool, responses, client, schemavars, svcvars>>

\* The stream in the hands of a caller that keeps asking after the end.
NextStream ==
    \/ Start \/ SetupClient \/ ModelCall \/ LoopExit \/ StreamChunk \/ StreamRaise
    \/ StreamEnd \/ ExecTool \/ FollowUp \/ FollowUpChunk \/ FollowUpEnd
    \/ AnextExhausted

SpecStream == InitLive /\ [][NextStream]_vars

\* ------------------------------------------------- MCPHelper on a tool object
\* A tool object as a session listed it, in the hands of MCPHelper.
InitSchema ==
    /\ stdio_server_map = <<>>
    /\ sse_server_map = <<>>
    /\ NewRegistry
    /\ \E p \in {"openai", "anthropic"} : NewChat(p, 0, "helper")
    /\ inputSchema \in Schemas
    /\ listedSchema = inputSchema
    /\ NoService
    /\ client = SdkClient
    /\ results = <<>>
    /\ formatted = <<>>
    /\ schema_exc = "no"

\* MCPHelper.filter_mcp_input_schema(tool.inputSchema), called directly: the
\* dict is changed in place and returned.
FilterSchema ==
    /\ pc = "helper"
    /\ Len(results) < MaxApply
    /\ inputSchema' = filter_mcp_input_schema(inputSchema)
    /\ IF FilterRaises(inputSchema)
       THEN schema_exc' = "IndexError" /\ UNCHANGED results
       ELSE /\ schema_exc' = "no"
            /\ results' = Append(results, filter_mcp_input_schema(inputSchema))
    /\ UNCHANGED <<regvars, provider, max_turns, messages, chat_messages, pc, turn,
                   accvars, tool_pos, out, budget, failed, raised, abandoned, histcore,
                   listedSchema, formatted>>

\* MCPHelper.format_tools_object_for_llm_call([tool], provider): for openai
\* "parameters" is filter_mcp_input_schema(tool.inputSchema), the tool's own
\* dict after the change; for anthropic "input_schema" is tool.inputSchema.
FormatTools ==
    /\ pc = "helper"
    /\ formatted = <<>>
    /\ inputSchema' = IF provider = "openai" THEN filter_mcp_input_schema(inputSchema)
                      ELSE inputSchema
    /\ IF provider = "openai" /\ FilterRaises(inputSchema)
       THEN schema_exc' = "IndexError" /\ UNCHANGED formatted
       ELSE schema_exc' = "no" /\ formatted' = <<inputSchema'>>
    /\ UNCHANGED <<regvars, provider, max_turns, messages, chat_messages, pc, turn,
                   accvars, tool_pos, out, budget, failed, raised, abandoned, histcore,
                   listedSchema, results>>

NextSchema == FilterSchema \/ FormatTools

SpecSchema == InitSchema /\ [][NextSchema]_vars

\* The run has stopped: the sequence ended, or the caller gave up on it.
Stopped == pc = "done" \/ abandoned

\* -------------------------------------------------------------- MCPService
\* What can go wrong below the service: the DAO read, the DAO write, the
\* commit, or the read of the record after the commit raises.
Faults == {"none", "read", "write", "commit", "reread"}

\* Variant: the ownership test is dropped.
DeniedNever(row, user_data) == FALSE

\* if user_data and mcp.user_id != str(user_data.userId); userId is a str
Denied(row, user_data) == user_data # NoUser /\ row.user_id # user_data

\* MCPService.get_mcp_by_id(mcp_id, user_data): row is the record returned,
\* NoRow for None.
GetOutcome(table, mcp_id, user_data, fault) ==
    IF fault = "read" THEN [exc |-> "Exception", row |-> NoRow]
    ELSE IF table[mcp_id] = NoRow THEN [exc |-> "no", row |-> NoRow]
    ELSE IF Denied(table[mcp_id], user_data)
         THEN [exc |-> "MCPUnauthorizedException", row |-> NoRow]
         ELSE [exc |-> "no", row |-> table[mcp_id]]

ServiceOutcome(e, t, w, c, r, v) ==
    [exc |-> e, table |-> t, writes |-> w, commits |-> c, rollbacks |-> r, value |-> v]

\* Variant: the record fetched before the write is returned.
RereadExisting(table, written, mcp_id) == ReturnsRecord(table[mcp_id])

\* updated_mcp = await self.mcp_dao.get_mcp_by_id(mcp_id), after the commit
Reread(table, written, mcp_id) == ReturnsRecord(written[mcp_id])

\* The body update_mcp, delete_mcp and toggle_inactive share: the record is
\* fetched with the ownership check, the DAO writes, the session commits and,
\* where rereads, the record is read again; every except clause rolls back
\* and failure is raised for anything but not-found and unauthorized.
GuardedWrite(table, mcp_id, user_data, fault, written, failure, rereads) ==
    LET g == GetOutcome(table, mcp_id, user_data, fault)
        none == ReturnsNothing
    IN  IF g.exc = "MCPUnauthorizedException"
        THEN ServiceOutcome(g.exc, table, 0, 0, 1, none)
        ELSE IF g.exc # "no" THEN ServiceOutcome(failure, table, 0, 0, 1, none)
        ELSE IF g.row = NoRow
             THEN ServiceOutcome("MCPNotFoundException", table, 0, 0, 1, none)
        ELSE IF fault = "write" THEN ServiceOutcome(failure, table, 1, 0, 1, none)
        ELSE IF fault = "commit" THEN ServiceOutcome(failure, table, 1, 1, 1, none)
        ELSE IF fault = "reread" /\ rereads
             THEN ServiceOutcome(failure, written, 1, 1, 1, none)
        ELSE ServiceOutcome("no", written, 1, 1, 0,
                            IF rereads THEN Reread(table, written, mcp_id)
                            ELSE ReturnsTrue)

\* update(MCPModel).where(MCPModel.id == mcp_id).values(**update_data)
UpdateDatas ==
    {<<[key |-> "mcp_name", val |-> n]>> : n \in McpNames}
      \cup {<<[key |-> "user_id", val |-> u]>> : u \in UserIds}
ApplyUpdate(row, update_data) ==
    [user_id  |-> DictGetOr(update_data, "user_id", row.user_id),
     mcp_name |-> DictGetOr(update_data, "mcp_name", row.mcp_name),
     inactive |-> row.inactive]

\* MCPService(session) over a table that holds the records created so far.
InitRows == {Row(u, "n1", FALSE) : u \in UserIds}
InitService ==
    /\ stdio_server_map = <<>>
    /\ sse_server_map = <<>>
    /\ NewRegistry
    /\ NewChat("openai", 0, "service")
    /\ inputSchema = NoSchema /\ listedSchema = NoSchema
    /\ results = <<>> /\ formatted = <<>> /\ schema_exc = "no"
    /\ issued \in 0..MaxRecords
    /\ mcps \in [McpIds -> InitRows \cup {NoRow}]
    /\ \A id \in McpIds : id > issued => mcps[id] = NoRow
    /\ last_op = NoOp
    /\ client = SdkClient

Serving == pc = "service" /\ last_op.seq < MaxOps

\* The operation op was issued by user_data on mcp_id, met fault and went as
\* o says.
Served(op, mcp_id, user_data, fault, o) ==
    /\ mcps' = o.table
    /\ last_op' = [op |-> op, seq |-> last_op.seq + 1, mcp_id |-> mcp_id,
                   user |-> user_data, fault |-> fault, exc |-> o.exc,
                   writes |-> o.writes,
                   commits |-> o.commits, rollbacks |-> o.rollbacks,
                   value |-> o.value, status |-> 0]

\* await service.create_mcp(mcp_name, sse_url, user_data, inactive, ...)
CreateMcp ==
    /\ Serving
    /\ issued < MaxRecords
    /\ \E user_data \in UserIds, n \in McpNames, i \in BOOLEAN, fault \in {"none", "commit"} :
          IF fault = "commit"
          THEN /\ Served("create_mcp", issued + 1, user_data, fault,
                         ServiceOutcome("MCPCreationException", mcps, 1, 1, 1,
                                        ReturnsNothing))
               /\ UNCHANGED issued
          ELSE /\ Served("create_mcp", issued + 1, user_data, fault,
                         ServiceOutcome("no", [mcps EXCEPT ![issued + 1] = Row(user_data, n, i)],
                                        1, 1, 0, ReturnsRecord(Row(user_data, n, i))))
               /\ issued' = issued + 1
    /\ UNCHANGED <<regvars, provider, max_turns, messages, chat_messages, pc, turn,
                   accvars, tool_pos, out, budget, failed, raised, abandoned, model_calls,
                   checked_calls, followup_calls, tool_runs, invocations, all_request,
                   stream_requests, last_tool, responses, end_signals, client, schemavars>>

\* await service.get_mcp_by_id(mcp_id, user_data)
GetMcpById ==
    /\ Serving
    /\ \E mcp_id \in McpIds, user_data \in UserIds \cup {NoUser}, fault \in {"none", "read"} :
          Served("get_mcp_by_id", mcp_id, user_data, fault,
                 LET g == GetOutcome(mcps, mcp_id, user_data, fault)
                 IN  ServiceOutcome(g.exc, mcps, 0, 0, 0,
                                    IF g.row = NoRow THEN ReturnsNothing
                                    ELSE ReturnsRecord(g.row)))
    /\ UNCHANGED <<regvars, provider, max_turns, messages, chat_messages, pc, turn,
                   accvars, tool_pos, out, budget, failed, raised, abandoned, model_calls,
                   checked_calls, followup_calls, tool_runs, invocations, all_request,
                   stream_requests, last_tool, responses, end_signals, client, schemavars, issued>>

\* await service.get_mcps_by_user(user_data)
GetMcpsByUser ==
    /\ Serving
    /\ \E user_data \in UserIds, fault \in {"none", "read"} :
          Served("get_mcps_by_user", 0, user_data, fault,
                 ServiceOutcome(IF fault = "read" THEN "Exception" ELSE "no", mcps, 0, 0, 0,
                                ReturnsNothing))
    /\ UNCHANGED <<regvars, provider, max_turns, messages, chat_messages, pc, turn,
                   accvars, tool_pos, out, budget, failed, raised, abandoned, model_calls,
                   checked_calls, followup_calls, tool_runs, invocations, all_request,
                   stream_requests, last_tool, responses, end_signals, client, schemavars, issued>>

\* await service.update_mcp(mcp_id, update_data, user_data)
UpdateMcp ==
    /\ Serving
    /\ \E mcp_id \in McpIds, update_data \in UpdateDatas, user_data \in UserIds,
          fault \in Faults :
          Served("update_mcp", mcp_id, user_data, fault,
                 GuardedWrite(mcps, mcp_id, user_data, fault,
                              [mcps EXCEPT ![mcp_id] = ApplyUpdate(mcps[mcp_id], update_data)],
                              "MCPUpdateException", TRUE))
    /\ UNCHANGED <<regvars, provider, max_turns, messages, chat_messages, pc, turn,
                   accvars, tool_pos, out, budget, failed, raised, abandoned, model_calls,
                   checked_calls, followup_calls, tool_runs, invocations, all_request,
                   stream_requests, last_tool, responses, end_signals, client, schemavars, issued>>

\* await service.delete_mcp(mcp_id, user_data)
DeleteMcp ==
    /\ Serving
    /\ \E mcp_id \in McpIds, user_data \in UserIds, fault \in Faults \ {"reread"} :
          Served("delete_mcp", mcp_id, user_data, fault,
                 GuardedWrite(mcps, mcp_id, user_data, fault,
                              [mcps EXCEPT ![mcp_id] = NoRow],
                              "MCPDeletionException", FALSE))
    /\ UNCHANGED <<regvars, provider, max_turns, messages, chat_messages, pc, turn,
                   accvars, tool_pos, out, budget, failed, raised, abandoned, model_calls,
                   checked_calls, followup_calls, tool_runs, invocations, all_request,
                   stream_requests, last_tool, responses, end_signals, client, schemavars, issued>>

\* await service.toggle_inactive(mcp_id, inactive, user_data)
ToggleInactive ==
    /\ Serving
    /\ \E mcp_id \in McpIds, inactive \in BOOLEAN, user_data \in UserIds, fault \in Faults :
          Served("toggle_inactive", mcp_id, user_data, fault,
                 GuardedWrite(mcps, mcp_id, user_data, fault,
                              [mcps EXCEPT ![mcp_id].inactive = inactive],
                              "MCPToggleInactiveException", TRUE))
    /\ UNCHANGED <<regvars, provider, max_turns, messages, chat_messages, pc, turn,
                   accvars, tool_pos, out, budget, failed, raised, abandoned, model_calls,
                   checked_calls, followup_calls, tool_runs, invocations, all_request,
                   stream_requests, last_tool, responses, end_signals, client, schemavars, issued>>

\* What leaves the try block of the route get_mcp_by_id: the exception of
\* the service, the HTTPException(404) raised for a result of None, or
\* nothing.
GetRouteBody(g) ==
    IF g.exc # "no" THEN g.exc
    ELSE IF g.row = NoRow THEN "HTTPException" ELSE "no"

\* The except clauses of the route, in their order: MCPUnauthorizedException
\* gives 403; "except Exception" takes everything else, HTTPException
\* included, and gives 500.
GetRouteStatus(raised_in_body) ==
    IF raised_in_body = "no" THEN 200
    ELSE IF raised_in_body = "MCPUnauthorizedException" THEN 403
    ELSE 500

\* GET /mcp/configs/{mcp_id} for the current user
GetRoute ==
    /\ Serving
    /\ \E mcp_id \in McpIds, user_data \in UserIds, fault \in {"none", "read"} :
          LET g == GetOutcome(mcps, mcp_id, user_data, fault)
          IN  last_op' = [op |-> "GET", seq |-> last_op.seq + 1, mcp_id |-> mcp_id,
                          user |-> user_data, fault |-> fault, exc |-> g.exc,
                          writes |-> 0, commits |-> 0, rollbacks |-> 0,
                          value |-> IF g.row = NoRow THEN ReturnsNothing
                                    ELSE ReturnsRecord(g.row),
                          status |-> GetRouteStatus(GetRouteBody(g))]
    /\ UNCHANGED <<regvars, provider, max_turns, messages, chat_messages, pc, turn,
                   accvars, tool_pos, out, budget, failed, raised, abandoned, model_calls,
                   checked_calls, followup_calls, tool_runs, invocations, all_request,
                   stream_requests, last_tool, responses, end_signals, client, schemavars, issued,
                   mcps>>

NextService ==
    \/ CreateMcp \/ GetMcpById \/ GetMcpsByUser \/ UpdateMcp \/ DeleteMcp
    \/ ToggleInactive \/ GetRoute
SpecService == InitService /\ [][NextService]_vars

\* ---------------------------------------------------- the non-streaming run
\* response.choices[0].message.tool_calls of a completed response: none, or
\* the calls the model asks for, each with the id the provider gave it.
ResponseToolCalls ==
    { <<>>,
      << ToolCall(<<"prov", 1>>, "search", <<"{", "}">>) >>,
      << ToolCall(<<"prov", 1>>, "search", <<"{", "}">>),
         ToolCall(<<"prov", 2>>, "ghost", <<"{", "}">>) >>,
      << ToolCall(<<"prov", 1>>, "search", <<"{">>) >> }

\* tool_calls[i] = {...} for i, tool_call in enumerate(...)
Enumerated(tcs) == [i \in 1..Len(tcs) |-> [key |-> i - 1, val |-> tcs[i]]]

\* self.client.manager: the attribute manager of the LLM client, not
\* self.client_manager; "absent" where the client has no such attribute.
ManagerOf(c) == IF c = SdkClient THEN "absent" ELSE "manager of the client"

\* observation = await self.client.manager.call_tool(tool_name, tool_args, self.tool_map)
NonStreamCallOutcome(c, tm, sess, tool_name, res) ==
    IF ManagerOf(c) = "absent"
    THEN [kind |-> "raise", exc |-> "AttributeError", value |-> NoneObs,
          target |-> NoSession]
    ELSE IF res.raises # "no"
    THEN [kind |-> "raise", exc |-> res.raises, value |-> NoneObs, target |-> NoSession]
    ELSE [kind |-> "return", exc |-> "no",
          value |-> IF res.content = <<>> THEN NoneObs ELSE res.content[1],
          target |-> NoSession]

\* except Exception as e: logger.error(...); raise
Reraise(e) ==
    /\ raised' = e
    /\ pc' = "done"

InitNonStream ==
    /\ stdio_server_map = <<>>
    /\ sse_server_map \in ChatMaps
    /\ NewRegistry
    /\ \E m \in 0..MaxTurnsBound : NewChat("openai", m, "ns_setup")
    /\ NoToolObject
    /\ NoService
    /\ client \in Clients

\* await self.setup_client()
NsSetup ==
    /\ pc = "ns_setup"
    /\ \E ch \in InitChoices(Backends) :
          LET o == InitializeOutcome(Backends, ch[1], ch[2])
          IN  /\ Initialized(o)
              /\ \E fails \in {f \in BOOLEAN : f => (o.ok /\ Len(o.sessions) > 0)} :
                    IF o.ok /\ ~fails
                    THEN /\ tool_map' = ListToolsOutcome(o.sessions, Backends).tool_map
                         /\ tools' = ListToolsOutcome(o.sessions, Backends).tools
                         /\ listed' = TRUE
                         /\ chat_messages' = Snapshot(messages).list
                         /\ pc' = "ns_loop"
                         /\ UNCHANGED raised
                    ELSE /\ Reraise("Exception")
                         /\ UNCHANGED <<tool_map, tools, listed, chat_messages>>
    /\ UNCHANGED <<cfgvars, session_calls, last_call, accvars, turn, tool_pos, out, budget,
                   failed, abandoned, histvars>>

\* for turn in range(self.max_turns): response = await ...create(**completion_params)
\* and the check of its tool calls; return response after the loop.
NsModelCall ==
    /\ pc = "ns_loop"
    /\ IF ~InRange(turn, max_turns)
       THEN /\ Reraise("UnboundLocalError")
            /\ UNCHANGED <<chat_messages, final_tool_calls, tool_pos, model_calls,
                           checked_calls, tool_runs>>
       ELSE /\ model_calls' = model_calls + 1
            /\ \/ /\ Reraise("Exception")
                  /\ UNCHANGED <<chat_messages, final_tool_calls, tool_pos, checked_calls,
                                 tool_runs>>
               \/ \E tcs \in ResponseToolCalls :
                     /\ checked_calls' = checked_calls + 1
                     /\ IF tcs # <<>>
                        THEN /\ final_tool_calls' = Enumerated(tcs)
                             /\ chat_messages' =
                                   Append(chat_messages,
                                          AssistantToolCalls("openai", Enumerated(tcs)))
                             /\ tool_pos' = 1
                             /\ tool_runs' = tool_runs + 1
                             /\ pc' = "ns_tools"
                             /\ UNCHANGED raised
                        ELSE /\ chat_messages' =
                                   Append(chat_messages,
                                          Msg("assistant", "text", <<"answer">>, <<>>, NoId))
                             /\ pc' = "done"
                             /\ UNCHANGED <<final_tool_calls, tool_pos, tool_runs, raised>>
    /\ UNCHANGED <<regvars, end_signals, client, schemavars, svcvars, provider, max_turns,
                   turn, tool_index, current_tool_index, content_buffer, out, budget,
                   failed, abandoned, followup_calls, invocations, all_request,
                   stream_requests, last_tool, responses>>
    /\ messages' = CallerList(messages, chat_messages')

\* for tool_call in tool_calls.values(): one iteration
NsExecTool ==
    /\ pc = "ns_tools"
    /\ tool_pos <= Len(final_tool_calls)
    /\ LET tc == Values(final_tool_calls)[tool_pos]
       IN  IF ~ParsesOK(tc.args)
           THEN /\ Reraise("Exception")
                /\ last_tool' = ToolRecord("badargs", tc, tool_runs, 0, 0)
                /\ UNCHANGED <<chat_messages, tool_pos, invocations, session_calls>>
           ELSE \E res \in SessionResults :
                   LET o == NonStreamCallOutcome(client, tool_map, sessions, tc.name, res)
                   IN  /\ invocations' = invocations + 1
                       /\ session_calls' = Called(session_calls, o, tc.name, JsonLoads(tc.args))
                       /\ IF Propagates(o)
                          THEN /\ Reraise(o.exc)
                               /\ last_tool' = ToolRecord("raise", tc, tool_runs, 0, 0)
                               /\ UNCHANGED <<chat_messages, tool_pos>>
                          ELSE /\ chat_messages' =
                                     Append(chat_messages,
                                            create_tool_result_message(tc.id, Str(o.value),
                                                                       "openai"))
                               /\ tool_pos' = tool_pos + 1
                               /\ last_tool' =
                                     ToolRecord("text", tc, tool_runs,
                                                Len(chat_messages) + 1, 0)
                               /\ UNCHANGED <<pc, raised>>
    /\ UNCHANGED <<provider, max_turns, stdio_server_map, sse_server_map, end_signals,
                   client, schemavars, svcvars, sessions, exit_stack, opened, closed, reg,
                   tool_map, tools, listed, last_call, accvars, turn, out, budget, failed,
                   abandoned, model_calls, checked_calls, followup_calls, tool_runs,
                   all_request, stream_requests, responses>>
    /\ messages' = CallerList(messages, chat_messages')

\* final_response = await ...create(**follow_up_params); return final_response
NsFollowUp ==
    /\ pc = "ns_tools"
    /\ tool_pos > Len(final_tool_calls)
    /\ model_calls' = model_calls + 1
    /\ followup_calls' = followup_calls + 1
    /\ \/ Reraise("Exception")
       \/ pc' = "done" /\ UNCHANGED raised
    /\ UNCHANGED <<regvars, end_signals, client, schemavars, svcvars, provider, max_turns,
                   messages, chat_messages, accvars, turn, tool_pos, out, budget, failed,
                   abandoned, checked_calls, tool_runs, invocations, all_request,
                   stream_requests, last_tool, responses>>

NextNonStream == NsSetup \/ NsModelCall \/ NsExecTool \/ NsFollowUp
SpecNonStream == InitNonStream /\ [][NextNonStream]_vars

\* ------------------------------------------------------------------ claims
IsError(c) == c.k = ERROR
ErrorEmitted(o) == \E i \in 1..Len(o) : IsError(o[i])
Exposes(b, name) == name \in Range(Backends[b].listing)

\* C1: the model calls whose response goes through the tool check never
\* outnumber max_turns, neither do the rounds of tool execution, and tools are
\* only executed (and responses only received) inside a turn below max_turns.
C1_TurnCeiling ==
    /\ checked_calls <= max_turns
    /\ tool_runs <= max_turns
    /\ pc \in {"stream", "tools", "followup"} => turn < max_turns
C1_Witness ==
    /\ pc = "done" /\ ~failed
    /\ max_turns = 2 /\ checked_calls = 2 /\ tool_runs = 2 /\ invocations >= 2

\* C2 as stated: with max_turns = 1 and a model that asks for a tool call in
\* every response, the run ends after exactly one model call and without
\* executing a tool.
C2_Original ==
    (pc = "done" /\ max_turns = 1 /\ all_request /\ model_calls >= 1)
        => (model_calls = 1 /\ invocations = 0)
\* C2 amended: with max_turns = 1 and a model that asks for a tool call in
\* every response, a run that does not fail makes exactly two model calls, the
\* initial one, whose tool calls are executed once each, and one follow-up
\* whose response is passed through unchecked; no run makes more.
C2_OneTurn ==
    /\ (pc = "done" /\ max_turns = 1 /\ all_request /\ ~failed)
          => /\ model_calls = 2 /\ checked_calls = 1 /\ followup_calls = 1
             /\ tool_runs = 1
             /\ invocations = Len(final_tool_calls)
    /\ max_turns = 1 => (model_calls <= 2 /\ tool_runs <= 1)
C2_Witness ==
    /\ pc = "done" /\ max_turns = 1 /\ all_request /\ ~failed
    /\ model_calls = 2 /\ invocations >= 1 /\ stream_requests

\* The first session, in the registry's iteration order, that lists name.
ListsTool(i, name) == name \in Range(Backends[sessions[i].val].listing)
FirstListing(name) ==
    CHOOSE i \in 1..Len(sessions) :
        ListsTool(i, name) /\ \A j \in 1..(i - 1) : ~ListsTool(j, name)

C4_FirstBackendRouted ==
    (reg = "ready" /\ listed /\ last_call.op = "call_tool"
       /\ \E a, b \in 1..Len(Backends) :
             a < b /\ Exposes(a, last_call.name) /\ Exposes(b, last_call.name))
    => /\ last_call.target # NoSession
       /\ Exposes(last_call.target, last_call.name)
       /\ \A a \in 1..(last_call.target - 1) : ~Exposes(a, last_call.name)
       /\ Last(session_calls).sid = last_call.target
       /\ Last(session_calls).name = last_call.name

\* C5: a tool call whose name is absent from the routing table gets a
\* tool-result message whose content is str(None), the not-found signal; no
\* session is called and no ERROR chunk is yielded for it, its completion
\* chunk is, and the run goes on to the follow-up model call.
C5_NotFoundContained ==
    (~HasKey(tool_map, last_tool.name) /\ last_tool.kind \notin {"none", "badargs"})
    => /\ last_tool.kind = "notfound"
       /\ last_tool.at \in 1..Len(chat_messages)
       /\ chat_messages[last_tool.at]
             = create_tool_result_message(last_tool.id, NoneText, provider)
       /\ last_tool.outat \in 1..Len(out)
       /\ out[last_tool.outat]
             = create_llm_chunk(PROGRESS, <<"Tool execution complete", last_tool.name>>)
       /\ \A i \in 1..last_tool.outat : ~IsError(out[i]) \/ out[i].text[1] # "Error"
       /\ \/ pc = "tools" /\ ~failed /\ tool_runs = last_tool.round
          \/ followup_calls >= last_tool.round
C5_Witness ==
    /\ last_tool.kind = "notfound" /\ last_tool.name = "ghost"
    /\ pc = "followup" /\ followup_calls = last_tool.round /\ session_calls = <<>>

\* C6 as stated: once an ERROR chunk has been yielded no further chunk is.
C6_Original == [][ErrorEmitted(out) => out' = out]_vars
\* C6 amended: the ERROR chunk of the outer handler (setup, the model call,
\* iterating a response, parsing arguments or executing a tool failed) is
\* terminal: it is the last chunk and the sequence has ended.  The ERROR chunk
\* for a failure in processing one response chunk is not: the run goes on with
\* the next chunk.
C6_OuterErrorTerminal ==
    /\ [](failed => (pc = "done" /\ IsError(Last(out)) /\ Last(out).text[1] = "Error"))
    /\ [][failed => (out' = out /\ pc' = "done")]_vars
C6_Witness ==
    /\ failed /\ pc = "done" /\ Len(out) >= 4
    /\ \E i \in 1..(Len(out) - 1) : IsError(out[i])

\* C7: no exception reaches the caller of __anext__, whichever step fails.
C7_NoFaultToCaller == raised = "no"
C7_Witness ==
    /\ failed /\ pc = "done" /\ raised = "no"
    /\ Last(out) = create_llm_chunk(ERROR, <<"Error", "IndexError">>)

\* C8 as stated: when the run has stopped, every transport and session that
\* setup opened is closed.
C8_ClosedWhenStopped == Stopped => opened \subseteq closed

\* C9 as stated: when initialize() has failed, everything it had opened is
\* closed and the registry holds no session.
C9_RollbackOnFailure == reg = "failed" => (opened \subseteq closed /\ sessions = <<>>)

RoundFailed(t) == t.kind \in {"raise", "contained"}
IsToolCallMessage(m) == m.kind \in {"tool_calls", "tool_use"}
LastToolCallMessage ==
    CHOOSE i \in 1..Len(chat_messages) :
        /\ IsToolCallMessage(chat_messages[i])
        /\ \A j \in (i + 1)..Len(chat_messages) : ~IsToolCallMessage(chat_messages[j])

\* C10 as stated: when a session's call raises, a tool-result message for that
\* call is appended and the run goes on with the remaining calls and the
\* follow-up model call.
C10_Original ==
    RoundFailed(last_tool)
    => /\ last_tool.at \in 1..Len(chat_messages)
       /\ chat_messages[last_tool.at].ref = last_tool.id
       /\ \/ pc = "tools" /\ ~failed /\ tool_runs = last_tool.round
          \/ followup_calls >= last_tool.round
\* C10 amended: when a session's call raises, no tool-result message is
\* appended for that call, the remaining tool calls and the follow-up model
\* call do not run, and the run ends with a terminal ERROR chunk.
C10_ToolFailureEndsRun ==
    RoundFailed(last_tool)
    => /\ last_tool.kind = "raise"
       /\ failed /\ pc = "done" /\ IsError(Last(out))
       /\ last_tool.at = 0
       /\ Len(chat_messages) = LastToolCallMessage + tool_pos - 1
       /\ Cardinality({i \in 1..Len(chat_messages) :
                           chat_messages[i].kind = "tool_result"}) = invocations - 1
       /\ followup_calls = last_tool.round - 1
C10_Witness ==
    /\ last_tool.kind = "raise" /\ last_tool.name = "search" /\ pc = "done"
    /\ Len(final_tool_calls) = 2 /\ tool_pos = 1

ParseFailed == last_tool.kind = "badargs"
ToolCallMessages == {i \in 1..Len(chat_messages) : IsToolCallMessage(chat_messages[i])}
ToolResults == {i \in 1..Len(chat_messages) : chat_messages[i].kind = "tool_result"}

Arrives(c) ==
    /\ Len(responses') = Len(responses)
    /\ Last(responses').chunks = Append(Last(responses).chunks, c)
OrphanDelta ==
    /\ provider = "anthropic" /\ pc = "stream" /\ current_tool_index = -1
    /\ \E c \in AnthropicChunks : c.k = "json_delta" /\ Arrives(c)

\* C12 as stated: in the Anthropic dialect, when an input_json_delta arrives
\* while no tool index is open, the step emits an ERROR chunk.
C12_OrphanDeltaReported ==
    [][OrphanDelta => \E i \in (Len(out) + 1)..Len(out') : IsError(out'[i])]_vars

HasChecked == \E i \in 1..Len(responses) : responses[i].kind = "checked"
\* The response of the last turn: the one final_tool_calls was accumulated from.
LastChecked ==
    responses[CHOOSE i \in 1..Len(responses) :
                  /\ responses[i].kind = "checked"
                  /\ \A j \in (i + 1)..Len(responses) : responses[j].kind # "checked"]
RECURSIVE Fragments(_, _)
\* The arguments fragments of the tool-call deltas of index idx among the
\* chunks cs, concatenated in order of arrival.
Fragments(cs, idx) ==
    IF cs = <<>> THEN <<>>
    ELSE (IF Head(cs).k = "tool" /\ Head(cs).idx = idx THEN Head(cs).args ELSE <<>>)
         \o Fragments(Tail(cs), idx)

\* C13: in the OpenAI dialect every index that a tool-call delta of the
\* response carried has an entry, and the arguments text of the entry is the
\* concatenation, in order of arrival, of the fragments of the deltas of that
\* index, whatever the interleaving with deltas of other indices and whether
\* or not a delta carries a fragment.
C13_ArgumentsConcatenated ==
    (provider = "openai" /\ HasChecked)
    => /\ \A i \in 1..Len(final_tool_calls) :
             final_tool_calls[i].val.args =
                 Fragments(LastChecked.chunks, final_tool_calls[i].key)
       /\ \A n \in 1..Len(LastChecked.chunks) :
             LastChecked.chunks[n].k = "tool"
             => HasKey(final_tool_calls, LastChecked.chunks[n].idx)
C13_Witness ==
    /\ provider = "openai" /\ HasChecked
    /\ Len(LastChecked.chunks) = 3
    /\ LastChecked.chunks[1].idx = 0 /\ LastChecked.chunks[1].args = <<"{">>
    /\ LastChecked.chunks[2].idx = 1
    /\ LastChecked.chunks[3].idx = 0 /\ LastChecked.chunks[3].args = <<"}">>
    /\ Len(final_tool_calls) = 2
    /\ DictGetOr(final_tool_calls, 0, ToolCall(NoId, "", <<>>)).args = <<"{", "}">>

\* C14 as stated: in the OpenAI dialect the name of a tool call is set at
\* most once: while a response is received, an entry whose name is not empty
\* keeps that name.
C14_NameSetOnce ==
    [][(provider = "openai" /\ pc = "stream")
       => \A i \in 1..Len(final_tool_calls) :
             final_tool_calls[i].val.name # ""
             => final_tool_calls'[i].val.name = final_tool_calls[i].val.name]_vars

RECURSIVE TextOf(_)
\* The text deltas of the chunks cs, concatenated in order of arrival.
TextOf(cs) ==
    IF cs = <<>> THEN <<>>
    ELSE (IF Head(cs).k \in {"content", "other"} THEN Head(cs).text ELSE <<>>)
         \o TextOf(Tail(cs))
EndedInError == failed /\ ErrorEmitted(out) /\ IsError(Last(out))
\* The run ended without failure and the conversation ends with an assistant
\* message that holds the text of the last model response.
EndedDone ==
    /\ ~failed
    /\ responses # <<>>
    /\ Last(chat_messages).role = "assistant"
    /\ Last(chat_messages).kind = "text"
    /\ Last(chat_messages).content = TextOf(Last(responses).chunks)

\* C15 as stated: a run that has ended after a model response that carried
\* text has ended in exactly one of two ways, with a terminal ERROR chunk, or
\* without failure and with the text of the last model response appended to
\* the conversation as an assistant message.
C15_ErrorOrDone ==
    (pc = "done" /\ responses # <<>> /\ TextOf(Last(responses).chunks) # <<>>)
    => (EndedInError \/ EndedDone) /\ ~(EndedInError /\ EndedDone)

\* The first model response of an OpenAI run has ended and carried no
\* tool-call delta and at least one text delta.
FirstTextOnly ==
    /\ provider = "openai" /\ responses # <<>> /\ responses[1].ended
    /\ \A n \in 1..Len(responses[1].chunks) : responses[1].chunks[n].k # "tool"
    /\ \E n \in 1..Len(responses[1].chunks) : responses[1].chunks[n].k = "content"

\* C16: when the first model response of an OpenAI run has no tool-call delta
\* and at least one text delta, the run has ended without failure, the
\* conversation is the history plus one assistant message whose content is
\* the text deltas concatenated in order, and one model call has been made.
C16_TextOnlyResponse ==
    FirstTextOnly
    => /\ pc = "done" /\ ~failed
       /\ chat_messages =
             Append(messages,
                    Msg("assistant", "text", TextOf(responses[1].chunks), <<>>, NoId))
       /\ model_calls = 1 /\ Len(responses) = 1
C16_Witness ==
    /\ FirstTextOnly /\ Len(responses[1].chunks) = 2
    /\ responses[1].chunks[1].text = <<"Hel">> /\ responses[1].chunks[2].text = <<"lo">>
    /\ Last(chat_messages).content = <<"Hel", "lo">>

IsModelChunk(c) == c.k \notin {PROGRESS, ERROR}
RECURSIVE AllReceived(_)
\* The chunks received from the responses rs, in order of arrival.
AllReceived(rs) == IF rs = <<>> THEN <<>> ELSE Head(rs).chunks \o AllReceived(Tail(rs))

\* C17 as stated: the output without its PROGRESS and ERROR chunks is the
\* sequence of the chunks received from the model responses of the run, each
\* once, unmodified and in the order received.
C17_EveryChunkForwarded == SelectSeq(out, IsModelChunk) = AllReceived(responses)

RECURSIVE FirstSeen(_, _)
\* The indices of the tool-call deltas among cs, in order of first appearance.
FirstSeen(cs, seen) ==
    IF cs = <<>> THEN <<>>
    ELSE IF Head(cs).k = "tool" /\ Head(cs).idx \notin seen
         THEN <<Head(cs).idx>> \o FirstSeen(Tail(cs), seen \cup {Head(cs).idx})
         ELSE FirstSeen(Tail(cs), seen)
IsBlockStart(c) == c.k = "block_start"
\* The entries of final_tool_calls stand in the order in which the response
\* first mentioned their tool calls.
InEncounterOrder ==
    IF provider = "openai"
    THEN [i \in 1..Len(final_tool_calls) |-> final_tool_calls[i].key]
             = FirstSeen(LastChecked.chunks, {})
    ELSE LET starts == SelectSeq(LastChecked.chunks, IsBlockStart)
         IN  [i \in 1..Len(final_tool_calls) |->
                  <<final_tool_calls[i].val.id, final_tool_calls[i].val.name>>]
                 = [i \in 1..Len(starts) |-> <<starts[i].id, starts[i].name>>]
\* The number of tool-result messages that follow message p directly.
ResultsAfter(p) ==
    Cardinality({j \in (p + 1)..Len(chat_messages) :
                     \A k \in (p + 1)..j : chat_messages[k].kind = "tool_result"})

\* C18: tool calls stand in the order in which the response first mentioned
\* them; during tool execution the assistant message lists them in that
\* order, the results so far are the last messages of the conversation and
\* the call invoked next is the one after them; no invocation is pending
\* between steps; and after every assistant tool-call message the results
\* come in the order of the calls it lists.
C18_SequentialInOrder ==
    /\ HasChecked => InEncounterOrder
    /\ invocations = Cardinality(ToolResults) + (IF last_tool.kind = "raise" THEN 1 ELSE 0)
    /\ pc = "tools"
       => /\ Len(chat_messages) = LastToolCallMessage + tool_pos - 1
          /\ ResultsAfter(LastToolCallMessage) = tool_pos - 1
          /\ [i \in 1..Len(final_tool_calls) |->
                 chat_messages[LastToolCallMessage].calls[i].id]
                = [i \in 1..Len(final_tool_calls) |-> final_tool_calls[i].val.id]
    /\ \A p \in ToolCallMessages :
          /\ ResultsAfter(p) <= Len(chat_messages[p].calls)
          /\ \A j \in 1..ResultsAfter(p) :
                chat_messages[p + j].ref = chat_messages[p].calls[j].id
C18_Witness ==
    /\ provider = "openai" /\ Len(final_tool_calls) = 2 /\ tool_pos = 3
    /\ final_tool_calls[1].key = 1 /\ final_tool_calls[2].key = 0
    /\ ResultsAfter(LastToolCallMessage) = 2
    /\ chat_messages[LastToolCallMessage + 1].ref = <<"call", 0>>
    /\ chat_messages[LastToolCallMessage + 2].ref = <<"prov", 1>>

\* Message p is followed by exactly one tool-result message for each of the
\* first n tool calls it lists, and by no further tool-result message.
FollowedByResults(p, n) ==
    /\ ResultsAfter(p) = n
    /\ \A j \in 1..n : chat_messages[p + j].ref = chat_messages[p].calls[j].id
Complete(p) == FollowedByResults(p, Len(chat_messages[p].calls))
\* The run ended inside process_tool_calls: a call raised, or its arguments
\* text did not parse.
EndedInTools == last_tool.kind \in {"raise", "badargs"} /\ last_tool.round = tool_runs

\* C19 as stated: when the run has ended, every assistant tool-call message of
\* the conversation is followed by exactly one tool-result message for each
\* tool call it lists.
C19_Original == pc = "done" => \A p \in ToolCallMessages : Complete(p)
\* C19 amended, the part about a state: when the run has ended, every
\* assistant tool-call message is followed by exactly one tool-result message
\* for each tool call it lists, except the last one when the run ended inside
\* tool execution: that one is followed by the results of the calls before the
\* failing call only.
PairedUnlessFailed ==
    pc = "done"
    => \A p \in ToolCallMessages :
          IF EndedInTools /\ p = LastToolCallMessage
          THEN /\ FollowedByResults(p, tool_pos - 1)
               /\ tool_pos - 1 < Len(chat_messages[p].calls)
               /\ failed /\ IsError(Last(out))
          ELSE Complete(p)
\* The conversation only grows: each step keeps the messages it had.
AppendOnly ==
    /\ Len(chat_messages') >= Len(chat_messages)
    /\ SubSeq(chat_messages', 1, Len(chat_messages)) = chat_messages
\* C19 amended: the conversation is append-only, and when the run has ended
\* every assistant tool-call message has its results, one for each call, except
\* after a failure inside tool execution, where the last assistant tool-call
\* message has the results of the calls before the failing one only.
C19_AppendOnlyPaired == [][AppendOnly]_vars /\ []PairedUnlessFailed
C19_Witness ==
    /\ pc = "done" /\ EndedInTools /\ provider = "openai"
    /\ Cardinality(ToolCallMessages) = 2
    /\ Len(chat_messages[LastToolCallMessage].calls) = 1 /\ tool_pos = 1

\* setup_client() raised: initialize() or list_tools() failed.
SetupFailed == pc = "done" /\ failed /\ ~listed

\* C20 as stated: when setup has failed, the output is a single ERROR chunk
\* with no chunk before it.
C20_Original == SetupFailed => (Len(out) = 1 /\ IsError(out[1]))
\* C20 amended: when setup has failed, the output is the "Warming up"
\* PROGRESS chunk followed by a single terminal ERROR chunk; no model call
\* has been made and the conversation has not been set up.
C20_WarmingUpThenError ==
    SetupFailed
    => /\ out = << create_llm_chunk(PROGRESS, <<"Warming up">>),
                   create_llm_chunk(ERROR, <<"Error", "Exception">>) >>
       /\ model_calls = 0 /\ responses = <<>> /\ chat_messages = <<>>
       /\ raised = "no"
C20_Witness == SetupFailed /\ reg = "failed" /\ Len(out) = 2 /\ IsError(out[2])

\* C21 as stated: a chunk of a follow-up response that asks for a tool call
\* (a tool_use block start, or a tool-call delta with an arguments fragment)
\* is accumulated: the step that receives it changes the accumulators.
C21_Original ==
    [][(pc = "followup"
        /\ \E c \in ModelChunks(provider) :
              /\ Arrives(c)
              /\ RequestsTool(c) /\ (c.k = "block_start" \/ c.args # <<>>))
       => <<final_tool_calls, tool_index>>' # <<final_tool_calls, tool_index>>]_vars
\* What a step does while the follow-up response is received.
FollowUpOnlyForwards ==
    pc = "followup"
    => /\ UNCHANGED <<final_tool_calls, tool_index, current_tool_index, content_buffer,
                      chat_messages, invocations, tool_runs, tool_pos>>
       /\ pc' \in {"followup", "loop", "done"}
       /\ \A c \in ModelChunks(provider) : Arrives(c) => out' = Append(out, c)
\* C21 amended: the chunks of a follow-up response are only forwarded. While
\* it is received, each chunk goes to the output as it is, the accumulated
\* tool calls, the conversation and the tool counters do not change, and when
\* it ends the run goes to the next turn (or has failed), never to tool
\* execution; a round of tool execution only follows a response of a turn.
C21_FollowUpOnlyForwarded == [][FollowUpOnlyForwards]_vars /\ [](tool_runs <= checked_calls)
C21_Witness ==
    /\ pc = "done" /\ ~failed /\ max_turns = 2 /\ Len(responses) = 3
    /\ responses[2].kind = "followup" /\ responses[2].ended
    /\ \E n \in 1..Len(responses[2].chunks) : RequestsTool(responses[2].chunks[n])
    /\ tool_runs = 1

\* The steps one turn can take at most, plus one: the chunks of its two
\* responses, its tool calls (each needs a chunk), and the steps between them.
TurnWeight == 3 * MaxChunks + 4
\* A measure of what is left of the run: the turns left, and within the turn
\* the phases left and the steps left in the phase.
Rank ==
    LET base == (max_turns - turn - 1) * TurnWeight + 1
    IN  CASE pc = "done" -> 0
          [] pc = "start" -> (max_turns + 1) * TurnWeight + 3
          [] pc = "setup" -> (max_turns + 1) * TurnWeight + 2
          [] pc = "loop" -> (max_turns - turn) * TurnWeight + 1
          [] pc = "stream" -> base + 2 * MaxChunks + 3 + budget
          [] pc = "tools" -> base + MaxChunks + 2 + (Len(final_tool_calls) + 1 - tool_pos)
          [] pc = "followup" -> base + 1 + budget
          [] OTHER -> 0
\* The chunks a run can yield at most: two before the first turn, those
\* received, and per turn four PROGRESS chunks, two per tool call, and the
\* ERROR chunks.
OutBound == 3 + 2 * MaxChunks + max_turns * (4 + 2 * MaxChunks)

\* C22: under a caller that iterates to the end, with finite response streams
\* and session calls that return or raise, every step of the run lowers a
\* measure that is a natural number (turns left, phases left in the turn,
\* steps left in the phase), the output stays within a bound fixed by
\* max_turns and the lengths of the streams, and the run eventually ends.
C22_RunTerminates ==
    /\ [][Rank' < Rank /\ Rank' \in Nat]_vars
    /\ [](Len(out) <= OutBound)
    /\ <>(pc = "done")
C22_Witness ==
    /\ pc = "done" /\ ~failed /\ max_turns = 2 /\ turn = 2
    /\ tool_runs = 2 /\ followup_calls = 2 /\ checked_calls = 2

\* C23: once the generator has returned, every request for a chunk raises
\* StopAsyncIteration and does nothing else: the generator stays exhausted,
\* no chunk is added to the output, and no setup, model call or tool call is
\* made; an end signal is only ever given by an exhausted generator.
C23_NotRestartable ==
    /\ [][pc = "done"
          => /\ end_signals' = end_signals + 1
             /\ UNCHANGED <<pc, out, model_calls, invocations, session_calls, opened,
                            reg, listed, chat_messages, responses, turn>>]_vars
    /\ [](end_signals >= 1 => pc = "done")
C23_Witness ==
    /\ end_signals = MaxPulls /\ pc = "done" /\ ~failed
    /\ model_calls >= 2 /\ invocations >= 1

\* C24 as stated: after a successful initialize() the registry holds one
\* session per configured backend, whatever the backend names: the sessions
\* that list_tools() queries and call_tool can route to are as many as the
\* stdio and SSE backends configured, and each backend's session is among them.
C24_SessionPerBackend ==
    reg = "ready"
    => /\ Len(sessions) = Len(stdio_server_map) + Len(sse_server_map)
       /\ \A b \in 1..Len(Backends) : \E i \in 1..Len(sessions) : sessions[i].val = b

\* C25: after close() has returned, every transport and session the registry
\* ever opened is closed and the exit stack is empty, whether initialize()
\* was never called, succeeded, or failed part-way.
C25_CloseReleasesAll == reg = "closed" => (opened \subseteq closed /\ exit_stack = <<>>)
C25_Witness ==
    /\ reg = "closed" /\ Cardinality(opened) >= 3 /\ opened \subseteq closed
    /\ \E b \in 1..Len(Backends) : Transport(b) \in opened /\ Session(b) \notin opened

\* A step of the registry in which call_tool is awaited.
CallStep ==
    /\ pc = "direct" /\ last_call'.op = "call_tool"
    /\ (last_call' # last_call \/ session_calls' # session_calls)

\* C26: call_tool for a name that the routing table does not hold returns
\* None, does not raise and calls no session; the routing table, the tool
\* list, the sessions and what is open stay as they were.
C26_AbsentNameReturnsNone ==
    [][(CallStep /\ ~HasKey(tool_map, last_call'.name))
       => /\ last_call'.kind = "return"
          /\ last_call'.value = NoneObs
          /\ last_call'.target = NoSession
          /\ UNCHANGED <<session_calls, tool_map, tools, sessions, exit_stack, opened,
                         closed, reg>>]_vars
C26_Witness ==
    /\ last_call.op = "call_tool" /\ last_call.name = "ghost" /\ last_call.value = NoneObs
    /\ listed /\ tool_map # <<>> /\ ~HasKey(tool_map, "ghost")
    /\ Len(session_calls) = 1

\* C27: filter_mcp_input_schema is idempotent: what a second call on a schema
\* returns equals what the first call returned, and so does every later one,
\* for schemas with or without properties, with "required" absent, not a list
\* or a list, and with property types absent, scalar or list-valued.
C27_FilterIdempotent ==
    /\ \A i \in 2..Len(results) : results[i] = results[1]
    /\ results # <<>> => inputSchema = results[1]
C27_Witness ==
    /\ Len(results) = 2 /\ results[1] # listedSchema
    /\ listedSchema.required = [kind |-> "list", keys |-> <<"z">>]
    /\ Len(listedSchema.properties) = 2
    /\ listedSchema.properties[1].val.type = ListType(<<"null", "integer">>)
    /\ results[2].properties[1].val.type = ScalarType("integer")
    /\ results[2].properties[1].val.nullable
    /\ results[2].required.keys = <<"z", "q", "n">>

\* C28 as stated: formatting the tool list for a provider, and normalizing
\* its schema, leave the tool object as it was listed: tool.inputSchema keeps
\* the value it had, its required list and its properties included.
C28_OriginalUnchanged == formatted # <<>> => inputSchema = listedSchema

\* A direct caller's call_tool on either object, and the session that owns
\* the call: self.session of an MCPClient, the session registered under the
\* server that the routing table gives for the name on the manager.
AnyCallStep ==
    /\ pc \in {"direct", "client"} /\ last_call'.op = "call_tool"
    /\ (last_call' # last_call \/ session_calls' # session_calls)
OwningSession(tool_name) ==
    IF pc = "client" THEN ClientSessionOf(sessions)
    ELSE DictGetOr(sessions, DictGetOr(tool_map, tool_name, None), NoSession)

\* C29: call_tool(name, args) on an initialized MCPClient, or on the manager
\* for a routed name, calls the owning session exactly once with that name and
\* those arguments, and when the session's result has a content item it
\* returns the text of the first one.
C29_CallPassesThrough ==
    [][(AnyCallStep /\ OwningSession(last_call'.name) # NoSession)
       => /\ session_calls' =
                Append(session_calls, [sid  |-> OwningSession(last_call'.name),
                                       name |-> last_call'.name,
                                       args |-> last_call'.args])
          /\ (last_call'.result.raises = "no" /\ last_call'.result.content # <<>>)
                => /\ last_call'.kind = "return"
                   /\ last_call'.value = last_call'.result.content[1]]_vars

C29_Witness ==
    /\ pc = "client" /\ reg = "ready"
    /\ last_call.op = "call_tool" /\ last_call.name = "search"
    /\ last_call.kind = "return" /\ last_call.value = <<"ok">>
    /\ Len(last_call.result.content) = 2
    /\ session_calls = <<[sid |-> 1, name |-> "search",
                          args |-> <<[key |-> "q", val |-> "x"]>>]>>

\* An operation of the service was carried out in this step.
ServiceStep == pc = "service" /\ last_op'.seq = last_op.seq + 1
OwnerChecked == {"get_mcp_by_id", "update_mcp", "delete_mcp", "toggle_inactive"}

\* The operation of this step was issued on an existing record with user data
\* whose id is not the owner's.
ByNonOwner ==
    /\ ServiceStep /\ last_op'.op \in OwnerChecked
    /\ mcps[last_op'.mcp_id] # NoRow
    /\ last_op'.user # NoUser
    /\ last_op'.user # mcps[last_op'.mcp_id].user_id

\* C30: get_mcp_by_id, update_mcp, delete_mcp and toggle_inactive issued by a
\* user who is not the owner of the record make no DAO write and no commit,
\* leave the table as it was and, the read of the record having returned it,
\* raise MCPUnauthorizedException; and whenever an existing record changes or
\* goes, the operation that did it was issued on that record by its owner.
C30_OnlyOwnerChanges ==
    [][/\ ByNonOwner
          => /\ last_op'.writes = 0 /\ last_op'.commits = 0
             /\ mcps' = mcps
             /\ (last_op'.fault # "read"
                   => last_op'.exc = "MCPUnauthorizedException")
       /\ \A id \in McpIds :
             (mcps[id] # NoRow /\ mcps'[id] # mcps[id])
                => /\ ServiceStep
                   /\ last_op'.mcp_id = id
                   /\ last_op'.user = mcps[id].user_id]_vars

C30_Witness ==
    /\ pc = "service" /\ last_op.seq = MaxOps
    /\ last_op.op = "delete_mcp" /\ last_op.exc = "MCPUnauthorizedException"
    /\ last_op.user = "alice"
    /\ mcps[last_op.mcp_id] = Row("bob", "n2", TRUE)

\* An operation that writes went through without raising.
Succeeded(ops) == ServiceStep /\ last_op'.op \in ops /\ last_op'.exc = "no"

\* C31: a successful create_mcp, update_mcp or delete_mcp commits exactly
\* once and rolls nothing back; create_mcp returns the record it added, owned
\* by the caller, and update_mcp returns the record as it is in the table
\* after the commit.
C31_SuccessCommitsOnce ==
    [][/\ Succeeded({"create_mcp", "update_mcp", "delete_mcp"})
          => last_op'.commits = 1 /\ last_op'.rollbacks = 0
       /\ Succeeded({"create_mcp"})
          => /\ last_op'.value.kind = "record"
             /\ last_op'.value.row.user_id = last_op'.user
             /\ last_op'.value.row = mcps'[last_op'.mcp_id]
             /\ mcps[last_op'.mcp_id] = NoRow
       /\ Succeeded({"update_mcp"})
          => /\ last_op'.value.kind = "record"
             /\ last_op'.value.row = mcps'[last_op'.mcp_id]]_vars

C31_Witness ==
    /\ pc = "service" /\ last_op.op = "update_mcp" /\ last_op.exc = "no"
    /\ last_op.commits = 1 /\ last_op.rollbacks = 0
    /\ last_op.user = "alice"
    /\ last_op.value = ReturnsRecord(Row("bob", "n1", FALSE))
    /\ mcps[last_op.mcp_id] = Row("bob", "n1", FALSE)

\* An operation that checks the owner before it writes raised.
RaisedInWrite ==
    /\ ServiceStep
    /\ last_op'.op \in {"update_mcp", "delete_mcp", "toggle_inactive"}
    /\ last_op'.exc # "no"

\* C40: when update_mcp, delete_mcp or toggle_inactive raises, the table is
\* as it was before the operation, whichever step failed.
C40_RaiseLeavesRecord == [][RaisedInWrite => mcps' = mcps]_vars

\* A list_tools or call_tool of an MCPClient whose initialize() has not
\* completed: never called, or failed at some step.
UninitializedUse ==
    /\ pc = "client" /\ reg \in {"new", "failed"}
    /\ last_call'.op \in {"list_tools", "call_tool"}
    /\ last_call' # last_call

\* C36: list_tools and call_tool of an MCPClient whose initialize() has not
\* completed successfully raise RuntimeError and call no session.
C36_SessionOnlyAfterInitialize ==
    [][UninitializedUse
       => /\ last_call'.kind = "raise" /\ last_call'.exc = "RuntimeError"
          /\ last_call'.target = NoSession
          /\ session_calls' = session_calls]_vars

\* What the claim says a property type orig becomes: new is the value of the
\* property after normalization.
Collapsed(orig, new) ==
    /\ new.type.kind # "list"
    /\ (orig.kind = "list" /\ "null" \in Range(orig.names)
          /\ SelectSeq(orig.names, IsNotNull) # <<>>)
          => /\ new.type = ScalarType(SelectSeq(orig.names, IsNotNull)[1])
             /\ new.nullable
    /\ (orig.kind = "list" /\ "null" \notin Range(orig.names) /\ orig.names # <<>>)
          => new.type = ScalarType(orig.names[1])

\* C34 as stated: normalization never fails, and in every schema it returns
\* no property has a list-valued type: a list with "null" became its first
\* non-null entry with nullable set, any other list its first entry.
C34_TypeListsCollapsed ==
    /\ schema_exc = "no"
    /\ \A i \in 1..Len(results) : \A j \in 1..Len(results[i].properties) :
          Collapsed(listedSchema.properties[j].val.type, results[i].properties[j].val)

\* C35 as stated: a returned schema has additionalProperties = false where
\* the listed one did not specify it, with or without properties, keeps the
\* value where it did, and has every key of its properties in required.
C35_AdditionalAndRequired ==
    \A i \in 1..Len(results) :
       /\ results[i].additional =
             IF listedSchema.additional = "absent" THEN "false" ELSE listedSchema.additional
       /\ \A j \in 1..Len(results[i].properties) :
             /\ results[i].required.kind = "list"
             /\ results[i].properties[j].key \in Range(results[i].required.keys)

Executing(name) == create_llm_chunk(PROGRESS, <<"Executing tool", name>>)
Completed(name) == create_llm_chunk(PROGRESS, <<"Tool execution complete", name>>)
AllExecuted == create_llm_chunk(PROGRESS, <<"All tools executed successfully">>)
IsAllExecuted(c) == c = AllExecuted
\* The tool call the loop of process_tool_calls stands at.
ToolAt == Values(final_tool_calls)[tool_pos]

\* A step of the loop of process_tool_calls and the step that leaves it, seen
\* from the output: the chunk that announces a tool is emitted with its
\* invocation and stands before anything the invocation leads to; a result
\* message is appended for the call the loop stands at, between that chunk
\* and its completion chunk, and the loop moves to the next call; when the
\* follow-up response is opened the final chunk of the loop comes right
\* after the completion chunk of the last call.
ToolProgressStep ==
    /\ invocations' # invocations
       => /\ Len(out') > Len(out)
          /\ out'[Len(out) + 1] = Executing(ToolAt.name)
    /\ Cardinality(ToolResults') # Cardinality(ToolResults)
       => /\ chat_messages' = Append(chat_messages, Last(chat_messages'))
          /\ Last(chat_messages').kind = "tool_result"
          /\ Last(chat_messages').ref = ToolAt.id
          /\ out' = out \o <<Executing(ToolAt.name), Completed(ToolAt.name)>>
          /\ tool_pos' = tool_pos + 1
    /\ Len(responses') > Len(responses) /\ Last(responses').kind = "followup"
       => /\ Last(out) = Completed(Values(final_tool_calls)[Len(final_tool_calls)].name)
          /\ out'[Len(out) + 1] = AllExecuted
          /\ Len(out') = Len(out) + 2
          /\ ~IsModelChunk(Last(out'))

\* C33: each tool call of a turn is announced by a PROGRESS chunk when it is
\* invoked, in tool-call order, and its completion chunk follows the append
\* of its result message; a loop that has executed all its tool calls emits
\* the final "all tools executed" chunk exactly once, right after the last
\* completion chunk and before the follow-up response is opened.
C33_ToolProgressInOrder ==
    /\ [][ToolProgressStep]_vars
    /\ [](Len(SelectSeq(out, IsAllExecuted)) = followup_calls)
    /\ [](followup_calls <= tool_runs)

C33_Witness ==
    /\ pc = "followup" /\ Len(final_tool_calls) = 2 /\ followup_calls = 1
    /\ Len(responses[2].chunks) = 1
    /\ \E p \in 1..Len(out) :
          /\ out[p] = AllExecuted
          /\ out[p - 1] = Completed(final_tool_calls[2].val.name)
          /\ out[p - 3] = Completed(final_tool_calls[1].val.name)
          /\ out[p - 4] = Executing(final_tool_calls[1].val.name)
          /\ IsModelChunk(out[p + 2])

\* C38: a run never changes the history the caller provided: the
\* conversation starts at setup as the messages of the history, once it is
\* there it only grows by appended messages, and the caller's list holds the
\* same messages after every step as before it.
C38_HistoryUntouched ==
    /\ [][/\ messages' = messages
          /\ (pc = "setup" /\ pc' = "loop") => chat_messages' = messages
          /\ chat_messages # <<>>
             => /\ Len(chat_messages') >= Len(chat_messages)
                /\ SubSeq(chat_messages', 1, Len(chat_messages)) = chat_messages]_vars
    /\ [](chat_messages # <<>>
            => /\ Len(chat_messages) >= Len(messages)
               /\ SubSeq(chat_messages, 1, Len(messages)) = messages)

C38_Witness ==
    /\ pc = "done" /\ ~failed /\ messages = UserMessages
    /\ Len(chat_messages) = Len(messages) + 3
    /\ chat_messages[Len(messages) + 1].role = "assistant"
    /\ chat_messages[Len(messages) + 2].kind = "tool_result"

\* The tool calls listed by the assistant tool-call messages of the
\* conversation: message position and position in the message.
ListedCalls ==
    {<<p, i>> : p \in ToolCallMessages, i \in 1..MaxChunks} \cap
    {pi \in (1..Len(chat_messages)) \X (1..MaxChunks) :
        pi[2] <= Len(chat_messages[pi[1]].calls)}
CallId(pi) == chat_messages[pi[1]].calls[pi[2]].id

\* C39 as stated: the ids of the tool calls of all assistant tool-call
\* messages of the conversation are pairwise distinct, and every tool-result
\* message refers to exactly one of them.
C39_ToolCallIdsDistinct ==
    /\ \A a, b \in ListedCalls : CallId(a) = CallId(b) => a = b
    /\ \A r \in ToolResults :
          Cardinality({a \in ListedCalls : CallId(a) = chat_messages[r].ref}) = 1

\* The GET route answered in this step.
GetAnswered == ServiceStep /\ last_op'.op = "GET"

\* C32 as stated: GET /mcp/configs/{mcp_id} answers 404 when no record has
\* the id, 403 when the record belongs to another user, and 500 only when
\* something else failed.
C32_GetStatusCodes ==
    [][GetAnswered
       => /\ (last_op'.fault = "none" /\ mcps[last_op'.mcp_id] = NoRow)
             => last_op'.status = 404
          /\ (last_op'.fault = "none" /\ mcps[last_op'.mcp_id] # NoRow
                /\ mcps[last_op'.mcp_id].user_id # last_op'.user)
             => last_op'.status = 403
          /\ last_op'.status = 500 => last_op'.fault # "none"]_vars

\* C37: in the non-streaming OpenAI run every tool invocation goes through the
\* registry that setup_client initialized and whose tool map it holds, as in
\* the streaming run: when the response asks for a tool the tool map knows,
\* the session that owns the tool is called with it, a tool-result message
\* for the call is appended, and the run does not end in an exception.
NsKnownTool ==
    /\ pc = "ns_tools"
    /\ tool_pos <= Len(final_tool_calls)
    /\ ParsesOK(ToolAt.args)
    /\ ~NotFound(tool_map, ToolAt.name)
NsRouted ==
    /\ Len(session_calls') = Len(session_calls) + 1
    /\ session_calls'[Len(session_calls')].name = ToolAt.name
    /\ session_calls'[Len(session_calls')].sid =
          DictGetOr(sessions, DictGetOr(tool_map, ToolAt.name, None), NoSession)
    /\ raised' = "no" =>
          /\ Len(chat_messages') = Len(chat_messages) + 1
          /\ chat_messages'[Len(chat_messages')].kind = "tool_result"
          /\ chat_messages'[Len(chat_messages')].ref = ToolAt.id
C37_NonStreamUsesRegistry == [][NsKnownTool => NsRouted]_vars
====
